---- MODULE Spec2Model ----
(***************************************************************************)
(* The Plan-Execute-Verify loop of MobileAgent.execute                     *)
(* (src/src/comptext_mcp/mobile_agent/agents/mobile_agent.py), the decoder *)
(* of model output (_parse_action), the action dispatcher                  *)
(* (_execute_action) and the retry loop of the model client                *)
(* (ollama_client.py, _request_with_retry).                                *)
(*                                                                         *)
(* The coroutine execute() is cut at its awaits: one action per await that *)
(* completes, carrying the synchronous code up to the next await.          *)
(***************************************************************************)
EXTENDS Integers, Sequences, FiniteSets, TLC

\* ------------------------------------------------------------------------
\* Bounds of the model
\* ------------------------------------------------------------------------
MaxStepsBound == 3        \* AgentConfig.max_steps ranges over 1..MaxStepsBound
MaxRetryAttempts == 1     \* AgentConfig.retry_attempts ranges over 0..MaxRetryAttempts
MaxRetriesBound == 1      \* OllamaConfig.max_retries ranges over 0..MaxRetriesBound
MaxTasks == 2             \* invocations of execute() on one agent instance
MaxElements == 1          \* elements of a screen read range over 0..MaxElements

MaxOps == 4               \* operations called on one OllamaCloudClient
MaxListed == 2            \* device lines in the output of "adb devices"
MaxReads == 5             \* screens read in the specification of the screen memory
MaxContextSize == 2       \* AgentConfig.context_memory_size ranges over 0..MaxContextSize
MaxClients == 2           \* WebSocket clients that may connect to the server
MaxBroadcasts == 2        \* events broadcast by the server
MaxCallers == 2           \* callers of the entry points that may overlap
MaxCalls == 3             \* calls of the entry points
MaxNodes == 2             \* nodes of a UI dump below its root element
MaxParses == 3            \* calls of parse() on one UITreeParser
MaxParams == 2            \* parameters of one action request
MaxSetBack == 2           \* how far the system clock may be set behind start_time
MaxScreenElements == 16   \* elements of a screen a tap is dispatched on
MaxTextLen == 16          \* characters of the texts whose token reduction is estimated
MaxHistory == 2           \* ScreenshotPipeline.max_history ranges over 0..MaxHistory
MaxCaptures == 4          \* calls of capture() on one ScreenshotPipeline
MaxMetricCalls == 7       \* calls of the methods of one TokenMetricsCollector
MaxRuns == 2              \* agent tasks the WebSocket server creates
MaxMessages == 4          \* messages the WebSocket server handles

\* AgentConfig.context_memory_size in the specification of execute().
ContextMemorySize == 1

\* ------------------------------------------------------------------------
\* JSON values and model output
\* ------------------------------------------------------------------------
\* A scalar JSON value: a string or a number (uniform record shape).
Str(x) == [ty |-> "str", s |-> x, n |-> 0]
Num(k) == [ty |-> "num", s |-> "", n |-> k]

\* A dict without entries.
EmptyDict == [k \in {} |-> Str("")]

\* A decoded JSON object: scalar members in flat, object-valued members in sub.
Obj(flat, sub) == [flat |-> flat, sub |-> sub]
EmptySub == [k \in {} |-> EmptyDict]

\* Model output is a sequence of lexical pieces: an opening brace, a closing
\* brace, a well-formed member "key": scalar, a key followed by a colon that
\* introduces a nested object, or other text (junk).  fb is the word the
\* fallback pattern would capture inside a piece of other text ("" if none).
LB == [ty |-> "lbrace", k |-> "", val |-> Str(""), fb |-> ""]
RB == [ty |-> "rbrace", k |-> "", val |-> Str(""), fb |-> ""]
Pair(k, v) == [ty |-> "pair", k |-> k, val |-> v, fb |-> ""]
Key(k) == [ty |-> "key", k |-> k, val |-> Str(""), fb |-> ""]
Junk(fb) == [ty |-> "junk", k |-> "", val |-> Str(""), fb |-> fb]

\* str.lower() on the vocabulary of the model.
Lower(s) ==
  CASE s = "Done" -> "done"
    [] s = "ACTION" -> "action"
    [] OTHER -> s

\* ------------------------------------------------------------------------
\* MobileAgent._parse_action
\* ------------------------------------------------------------------------
MinOf(S) == CHOOSE x \in S : \A y \in S : x <= y
MaxOf(S) == CHOOSE x \in S : \A y \in S : x >= y

IsBrace(t) == t.ty \in {"lbrace", "rbrace"}

\* Position of the first brace after position i of c, 0 if there is none.
NextBrace(c, i) ==
  LET J == {j \in (i + 1)..Len(c) : IsBrace(c[j])}
  IN IF J = {} THEN 0 ELSE MinOf(J)

\* The pattern \{[^{}]*\} matches at i: an opening brace whose next brace
\* closes it.
FlatObjectAt(c, i) ==
  /\ c[i].ty = "lbrace"
  /\ NextBrace(c, i) # 0
  /\ c[NextBrace(c, i)].ty = "rbrace"

\* re.search(r"\{[^{}]*\}", content): the leftmost match.
json_match(c) ==
  LET I == {i \in 1..Len(c) : FlatObjectAt(c, i)}
  IN IF I = {}
     THEN [found |-> FALSE, lo |-> 0, hi |-> 0]
     ELSE [found |-> TRUE, lo |-> MinOf(I), hi |-> NextBrace(c, MinOf(I))]

\* json.loads accepts the matched text iff every piece between the braces is
\* a well-formed member.
json_valid(m) == \A i \in 1..Len(m) : m[i].ty = "pair"

\* json.loads of a brace-free object: the last member of a key wins.
json_loads(m) ==
  Obj([k \in {m[i].k : i \in 1..Len(m)} |->
         m[MaxOf({i \in 1..Len(m) : m[i].k = k})].val],
      EmptySub)

\* What "?action"?\s*:\s*"?(\w+)"? (IGNORECASE) captures inside one piece.
FallbackCapture(t) ==
  CASE t.ty = "junk" -> t.fb
    [] t.ty = "pair" /\ Lower(t.k) = "action" ->
         IF t.val.ty = "str" THEN t.val.s ELSE ToString(t.val.n)
    [] OTHER -> ""

\* re.search of the fallback pattern: the leftmost capture, "" if none.
action_match(c) ==
  LET A == {i \in 1..Len(c) : FallbackCapture(c[i]) # ""}
  IN IF A = {} THEN "" ELSE FallbackCapture(c[MinOf(A)])

None == [none |-> TRUE, d |-> Obj(EmptyDict, EmptySub)]
Some(d) == [none |-> FALSE, d |-> d]

\* _parse_action(content) for a content that is a string.
_parse_action(c) ==
  LET jm == json_match(c)
      inner == SubSeq(c, jm.lo + 1, jm.hi - 1)
  IN IF jm.found /\ json_valid(inner)
     THEN Some(json_loads(inner))
     ELSE IF action_match(c) # ""
          THEN Some(Obj([action |-> Str(Lower(action_match(c))),
                         thought |-> Str("content[:100]")],
                        [params |-> EmptyDict]))
          ELSE None

\* Python truth value of the decoded action: None and {} are false.
Truthy(a) == ~a.none /\ (DOMAIN a.d.flat # {} \/ DOMAIN a.d.sub # {})

\* dict.get(k, default) on a decoded object; an object-valued member reads
\* as ObjVal.
ObjVal == [ty |-> "obj", s |-> "", n |-> 0]
Get(d, k, default) ==
  IF k \in DOMAIN d.flat THEN d.flat[k]
  ELSE IF k \in DOMAIN d.sub THEN ObjVal
  ELSE default

\* dict.get on a flat dict.
DGet(p, k, default) == IF k \in DOMAIN p THEN p[k] ELSE default

\* ------------------------------------------------------------------------
\* Screens
\* ------------------------------------------------------------------------
\* UIElement.center of the element listed at position i (0-based).
Center(i) == [x |-> 50 + 100 * i, y |-> 25]

\* The local variable screen before the first read (result.final_screen = None).
NoScreen == [valid |-> FALSE, elements |-> <<>>]

\* What get_screen_state() can return: it catches every failure of its
\* bridge commands and returns a ScreenState, possibly without elements.
Screens ==
  {[valid |-> TRUE, elements |-> [i \in 1..n |-> Center(i - 1)]] : n \in 0..MaxElements}

\* ------------------------------------------------------------------------
\* MobileAgent._execute_action
\* ------------------------------------------------------------------------
\* Outcome of the synchronous part of _execute_action: it returns a failed
\* ActionResult without calling the device, calls one DeviceController
\* operation, or raises.
Fail(err) == [kind |-> "fail", op |-> "", args |-> <<>>, sarg |-> "", error |-> err]
Device(op, args, sarg) == [kind |-> "device", op |-> op, args |-> args, sarg |-> sarg, error |-> ""]
Raise(err) == [kind |-> "raise", op |-> "", args |-> <<>>, sarg |-> "", error |-> err]
NoCall == [kind |-> "none", op |-> "", args |-> <<>>, sarg |-> "", error |-> ""]

\* bool(v) of a scalar.
TruthyVal(v) == IF v.ty = "str" THEN v.s # "" ELSE IF v.ty = "num" THEN v.n # 0 ELSE TRUE

\* directions[...] of the swipe branch: cx, cy = 540, 960; distance = 500.
SwipeDirections == {"up", "u", "down", "d", "left", "l", "right", "r"}
SwipeCoords(dir) ==
  CASE dir \in {"up", "u"} -> <<540, 1460, 540, 460>>
    [] dir \in {"down", "d"} -> <<540, 460, 540, 1460>>
    [] dir \in {"left", "l"} -> <<1040, 960, 40, 960>>
    [] OTHER -> <<40, 960, 1040, 960>>

\* The tap branch for a dict params.
TapCall_FromOne(p, scr) ==
  IF "element_index" \in DOMAIN p \/ "ei" \in DOMAIN p
  THEN LET idx == DGet(p, "element_index", DGet(p, "ei", Num(0)))
       IN IF idx.ty # "num" THEN Fail("TypeError")
          ELSE IF 1 <= idx.n /\ idx.n <= Len(scr.elements)
               THEN Device("tap_element",
                           <<scr.elements[idx.n].x, scr.elements[idx.n].y>>, "")
               ELSE Fail("Invalid element index")
  ELSE Fail("Missing tap coordinates or element_index")
TapCall(p, scr) ==
  IF "element_index" \in DOMAIN p \/ "ei" \in DOMAIN p
  THEN LET idx == DGet(p, "element_index", DGet(p, "ei", Num(0)))
       IN IF idx.ty # "num" THEN Fail("TypeError")
          ELSE IF 0 <= idx.n /\ idx.n < Len(scr.elements)
               THEN Device("tap_element",
                           <<scr.elements[idx.n + 1].x, scr.elements[idx.n + 1].y>>, "")
               ELSE Fail("Invalid element index")
  ELSE IF "x" \in DOMAIN p /\ "y" \in DOMAIN p
       THEN IF p["x"].ty = "num" /\ p["y"].ty = "num"
            THEN Device("tap", <<p["x"].n, p["y"].n>>, "")
            ELSE Fail("ValueError")
       ELSE Fail("Missing tap coordinates or element_index")

\* The swipe branch for a dict params.
SwipeCall(p) ==
  IF "direction" \in DOMAIN p \/ "d" \in DOMAIN p
  THEN LET dir == DGet(p, "direction", DGet(p, "d", Str("up")))
       IN IF dir.ty = "str" /\ dir.s \in SwipeDirections
          THEN Device("swipe", SwipeCoords(dir.s), "")
          ELSE Fail("Invalid swipe parameters")
  ELSE IF {"x1", "y1", "x2", "y2"} \subseteq DOMAIN p
       THEN IF \A k \in {"x1", "y1", "x2", "y2"} : p[k].ty = "num"
            THEN Device("swipe", <<p["x1"].n, p["y1"].n, p["x2"].n, p["y2"].n>>, "")
            ELSE Fail("ValueError")
       ELSE Fail("Invalid swipe parameters")

\* The type branch for a dict params.  type_text of a value that is not a
\* string fails on text.replace, before any bridge command is issued.
TypeCall(p) ==
  LET text == DGet(p, "text", DGet(p, "txt", Str("")))
  IN IF ~TruthyVal(text) THEN Fail("Missing text to type")
     ELSE IF text.ty = "str" THEN Device("type_text", <<>>, text.s)
     ELSE Fail("AttributeError")

\* The launch branch for a dict params.
LaunchCall(p) ==
  LET package == DGet(p, "package", DGet(p, "pkg", Str("")))
  IN IF TruthyVal(package)
     THEN Device("launch_app", <<>>, IF package.ty = "str" THEN package.s ELSE ToString(package.n))
     ELSE Fail("Missing package name")

\* The wait branch for a dict params: float() of a non-numeric string raises
\* inside the try and becomes a failed result.
WaitCall(p) ==
  LET seconds == DGet(p, "seconds", DGet(p, "s", Num(1)))
  IN IF seconds.ty = "num" THEN Device("wait", <<seconds.n>>, "") ELSE Fail("ValueError")

\* _execute_action(action_data, screen) up to its first await.  The strings
\* of the vocabulary are not numerals, so int() and float() of a string raise.
_execute_action(d, scr) ==
  LET act == Get(d, "action", Str(""))
      isDict == "params" \notin DOMAIN d.flat
      p == IF "params" \in DOMAIN d.sub THEN d.sub["params"] ELSE EmptyDict
  IN IF act.ty # "str" THEN Raise("AttributeError")
     ELSE LET action == Lower(act.s)
          IN CASE action = "back" -> Device("press_key", <<>>, "KEYCODE_BACK")
               [] action = "home" -> Device("press_key", <<>>, "KEYCODE_HOME")
               [] action \in {"tap", "swipe", "type", "launch_app", "launch", "wait"} /\ ~isDict ->
                    Fail("TypeError")
               [] action = "tap" /\ isDict -> TapCall(p, scr)
               [] action = "swipe" /\ isDict -> SwipeCall(p)
               [] action = "type" /\ isDict -> TypeCall(p)
               [] action \in {"launch_app", "launch"} /\ isDict -> LaunchCall(p)
               [] action = "wait" /\ isDict -> WaitCall(p)
               [] OTHER -> Fail("Unknown action")

\* DeviceController.wait only sleeps: it cannot fail.
CanFail(call) == call.op # "wait"

\* ------------------------------------------------------------------------
\* Model responses
\* ------------------------------------------------------------------------
\* A ChatResponse: message.content (null: the content member is JSON null)
\* and usage.total_tokens.
Resp(name, content, tokens) ==
  [name |-> name, null |-> FALSE, content |-> content, total_tokens |-> tokens]

PlainText    == Resp("PlainText", <<Junk("")>>, 1)
EmptyObject  == Resp("EmptyObject", <<LB, RB>>, 2)
CompactDone  == Resp("CompactDone", <<LB, Pair("a", Str("done")), RB>>, 1)
FlatDone     == Resp("FlatDone",
                     <<LB, Pair("thought", Str("t")), Pair("action", Str("done")), RB>>, 2)
PromptDone   == Resp("PromptDone",
                     <<LB, Pair("thought", Str("t")), Pair("action", Str("done")),
                       Key("params"), LB, RB, Pair("confidence", Num(1)), RB>>, 2)
PromptTap    == Resp("PromptTap",
                     <<LB, Pair("thought", Str("t")), Pair("action", Str("tap")),
                       Key("params"), LB, Pair("element_index", Num(0)), RB,
                       Pair("confidence", Num(1)), RB>>, 2)
FlatBack     == Resp("FlatBack", <<LB, Pair("action", Str("back")), RB>>, 1)
FlatWait     == Resp("FlatWait", <<LB, Pair("action", Str("wait")), RB>>, 1)
UnquotedDone == Resp("UnquotedDone", <<LB, Junk("Done"), RB>>, 1)
NumberAction == Resp("NumberAction", <<LB, Pair("action", Num(5)), RB>>, 1)
NullContent  == [name |-> "NullContent", null |-> TRUE, content |-> <<>>, total_tokens |-> 1]

Responses ==
  {PlainText, EmptyObject, CompactDone, FlatDone, PromptDone, PromptTap, FlatBack,
   FlatWait, UnquotedDone, NumberAction, NullContent}

\* The content is text in which nothing is a member or names an action.
NoAction(r) ==
  /\ ~r.null
  /\ \A i \in 1..Len(r.content) :
       \/ IsBrace(r.content[i])
       \/ r.content[i].ty = "junk" /\ r.content[i].fb = ""

NoResponse == [name |-> "", null |-> FALSE, content |-> <<>>, total_tokens |-> 0]

\* ------------------------------------------------------------------------
\* State
\* ------------------------------------------------------------------------
VARIABLES
  cfg,            \* max_steps, retry_attempts (AgentConfig), max_retries (OllamaConfig)
  pc,             \* position of the coroutine execute()
  state,          \* MobileAgent._state
  step_num,       \* loop variable of execute()
  screen,         \* local variable screen
  response,       \* local variable response
  action_data,    \* local variable action_data (the decoded action)
  step,           \* local variable step (the AgentStep under construction)
  call,           \* the call of _execute_action in progress
  result,         \* local variable result (the AgentResult)
  attempt,        \* loop variable of _request_with_retry
  now,            \* time.time()
  start_time,     \* local variable start_time
  tasks,          \* invocations of execute() so far
  modelCalls,     \* calls of ollama.chat() in this invocation
  deviceActions,  \* DeviceController operations called by _execute_action in this invocation
  failures,       \* failed ActionResults in this invocation
  skips,          \* responses skipped by line 186-188 in this invocation
  unparsed,       \* responses received in this invocation whose text names no action
  tokensReceived, \* total_tokens of the responses chat() returned in this invocation
  _context_memory,      \* MobileAgent._context_memory
  context_memory_size,  \* AgentConfig.context_memory_size
  reads,          \* the screens read in the specification of the screen memory, in order
  ollama,         \* the OllamaCloudClient: _client and the connections it created
  cpos,           \* position of the caller of the OllamaCloudClient
  ops,            \* the operations called on the OllamaCloudClient so far
  device,         \* the DroidRunWrapper: config.device_serial, _device_connected
  dop,            \* the device operation in progress or just ended
  dpos,           \* its position
  dcmd,           \* the index of the bridge command it runs
  timer,          \* whether the await in progress is under asyncio.wait_for
  dres,           \* what the operation gave its caller
  listing,        \* the output of the last "adb devices"
  _broadcast,     \* WebSocketMobileAgent._broadcast: the callback and what a call of it does
  events,         \* the events handed to the callback by the latest step of execute()
  announced,      \* the state the latest state_changed event of this invocation carried
  _clients,       \* MobileAgentWebSocketServer._clients
  bpos,           \* position of the coroutine _broadcast()
  pending,        \* the clients whose send() gather still awaits
  targets,        \* the clients _broadcast() created a send() for
  sendResult,     \* how the send() to each client ended in this broadcast
  received,       \* how often each client received the event of this broadcast
  broadcasts,     \* calls of _broadcast() so far
  config,         \* the MobileAgentConfig of the process (from the environment)
  _agent,         \* the global _agent of the tool layer
  tpos,           \* position of each caller of an entry point
  entry,          \* the entry point each caller went through
  calls,          \* calls of the entry points so far
  executeCalls,   \* calls of execute() so far
  interactions,   \* device commands and model calls issued so far
  parser,         \* the UITreeParser: min_area, max_elements, _index_counter
  dump,           \* the UI dump handed to the latest parse()
  parsed,         \* the list the latest parse() returned
  encoded,        \* to_comptext_format of that list
  compact,        \* the lines _format_screen_compact gives for the same dump
  parses,         \* calls of parse() so far
  first,          \* the dump of the first call of parse()
  firstEncoded,   \* what its encoding was
  others,         \* calls of parse() with another dump than the first
  request,        \* the MobileActionSchema to encode
  wire,           \* the members of the JSON object to_comptext returned
  decoded,        \* what from_comptext made of it
  _current_task,  \* MobileAgentWebSocketServer._current_task
  job,            \* where the coroutine execute() of each task created by _run_task is
  cancelling,     \* the tasks with a cancel() that was not yet delivered
  stopped,        \* the tasks a stop command cancelled
  terminal,       \* the task_completed and task_failed events emitted for each task
  handled,        \* calls of _handle_message so far
  last,           \* the latest message handled and its sender
  reply,          \* the event that call sent, and to whom
  latest,         \* the elements of the latest screen read
  asked,          \* the params of the tap action dispatched on it
  tapped,         \* what _execute_action did for it
  texts,          \* the lengths of the verbose and the compact text compared
  estimate,       \* what calculate_token_reduction returned for them
  pipeline,       \* the ScreenshotPipeline: max_history, _history
  capture,        \* where each call of capture() is
  succeeded,      \* the calls of capture() that made a screenshot, in the order they ended
  collector,      \* the TokenMetricsCollector: tasks, _current_task
  report,         \* what the latest get_performance_metrics() returned
  mop,            \* the method of the collector called last
  mcalls,         \* calls of its methods so far
  completions     \* calls of complete_task() that completed a task

agentVars == <<cfg, pc, state, step_num, screen, response, action_data, step, call, result,
               attempt, now, start_time, tasks, modelCalls, deviceActions, failures, skips,
               unparsed, tokensReceived>>
memoryVars == <<_context_memory, context_memory_size, reads>>
clientVars == <<ollama, cpos, ops>>
deviceVars == <<device, dop, dpos, dcmd, timer, dres, listing>>
eventVars == <<_broadcast, events, announced>>
serverVars == <<_clients, bpos, pending, targets, sendResult, received, broadcasts>>
channelVars == <<_current_task, job, cancelling, stopped, terminal, handled, last, reply>>

toolVars == <<config, _agent, tpos, entry, calls, executeCalls, interactions>>

parserVars == <<parser, dump, parsed, encoded, compact, parses, first, firstEncoded, others>>
schemaVars == <<request, wire, decoded>>

\* The parts without a life cycle of their own: parser and action schema.
dispatchVars == <<latest, asked, tapped>>
reductionVars == <<texts, estimate>>
shotVars == <<pipeline, capture, succeeded>>
metricsVars == <<collector, report, mop, mcalls, completions>>
utilVars == <<dispatchVars, reductionVars, shotVars, metricsVars>>
pureVars == <<parserVars, schemaVars, utilVars>>

\* The parts around the agent: the WebSocket server, the entry points, the
\* UI tree parser and the action schema.
peripheryVars == <<serverVars, channelVars, toolVars, pureVars>>

\* The agent and the parts it is built from.
coreVars == <<agentVars, memoryVars, clientVars, deviceVars, eventVars>>

vars == <<coreVars, peripheryVars>>

\* What execute() neither reads nor writes.  The callback of the subclass
\* is left to the step that runs execute().
OtherParts == <<context_memory_size, reads, cpos, ops, deviceVars, peripheryVars>>

AgentStates == {"idle", "planning", "executing", "verifying", "reflecting", "completed", "failed"}

NoError == "None"
MaxStepsError == "Max steps reached without completing task"
ActionFailedError == "Action failed"

\* AgentResult(success=False, task=task)
NewResult ==
  [success |-> FALSE, steps |-> <<>>, total_tokens |-> 0, total_duration_ms |-> 0,
   error |-> NoError, final_screen |-> NoScreen]

NoneVal == [ty |-> "none", s |-> "", n |-> 0]
NoStep == [step_number |-> 0, action |-> NoneVal, success |-> FALSE, tokens_used |-> 0]

\* ------------------------------------------------------------------------
\* MobileAgent._add_to_context
\* ------------------------------------------------------------------------
\* Python's lst[-n:] for n >= 0: the last n entries, the whole list when it
\* has no more than n; -0 is 0, so lst[-0:] is the whole list.
LastSlice(lst, n) ==
  LET start == IF n = 0 THEN 0 ELSE MaxOf({Len(lst) - n, 0})
  IN SubSeq(lst, start + 1, Len(lst))

\* _add_to_context(screen): the new value of self._context_memory.
_add_to_context(mem, scr, max_size) ==
  IF Len(Append(mem, scr)) > max_size
  THEN LastSlice(Append(mem, scr), max_size)
  ELSE Append(mem, scr)

\* ------------------------------------------------------------------------
\* OllamaCloudClient: the connection
\* ------------------------------------------------------------------------
NoClient == 0

\* OllamaCloudClient.__init__: self._client = None.  created counts the
\* httpx.AsyncClient objects made so far and live holds those not yet closed.
NewClient == [_client |-> NoClient, created |-> 0, live |-> {}]

\* Variant: a new connection is made on every call.
_ensure_client_Always(o) ==
  [o EXCEPT !._client = o.created + 1,
            !.created = o.created + 1,
            !.live = o.live \cup {o.created + 1}]

\* _ensure_client(): a connection is made only if self._client is None.
_ensure_client(o) ==
  IF o._client = NoClient
  THEN [o EXCEPT !._client = o.created + 1,
                 !.created = o.created + 1,
                 !.live = o.live \cup {o.created + 1}]
  ELSE o

\* ------------------------------------------------------------------------
\* Initial states
\* ------------------------------------------------------------------------
NoSerial == ""
NoResult == [kind |-> "none", success |-> FALSE, error |-> ""]
NoListing == [ok |-> FALSE, out |-> <<>>]

\* MobileAgent.__init__ with configuration c.
AgentNew(c) ==
  /\ cfg = c
  /\ pc = "idle"
  /\ state = "idle"
  /\ step_num = 0
  /\ screen = NoScreen
  /\ response = NoResponse
  /\ action_data = None
  /\ step = NoStep
  /\ call = NoCall
  /\ result = NewResult
  /\ attempt = 0
  /\ now = 0
  /\ start_time = 0
  /\ tasks = 0
  /\ modelCalls = 0
  /\ deviceActions = 0
  /\ failures = 0
  /\ skips = 0
  /\ unparsed = 0
  /\ tokensReceived = 0

\* self._context_memory = [] with context_memory_size = n.
MemoryNew(n) ==
  /\ _context_memory = <<>>
  /\ context_memory_size = n
  /\ reads = <<>>

\* OllamaCloudClient.__init__.
ClientNew ==
  /\ ollama = NewClient
  /\ cpos = "idle"
  /\ ops = <<>>

\* DroidRunWrapper.__init__ with config.device_serial = serial.
DeviceNew(serial) ==
  /\ device = [device_serial |-> serial, _device_connected |-> FALSE]
  /\ dop = "none"
  /\ dpos = "idle"
  /\ dcmd = 0
  /\ timer = FALSE
  /\ dres = NoResult
  /\ listing = NoListing

\* MobileAgent has no callback (NoBroadcast); WebSocketMobileAgent.__init__
\* stores broadcast_callback b, which may be None ("absent").
NoBroadcast == "none"
EmitterNew(b) ==
  /\ _broadcast = b
  /\ events = <<>>
  /\ announced = "none"

\* The clients that may connect.
Clients == 1..MaxClients

\* MobileAgentWebSocketServer.__init__: self._clients = set().
ServerNew ==
  /\ _clients = {}
  /\ bpos = "idle"
  /\ pending = {}
  /\ targets = {}
  /\ sendResult = [c \in Clients |-> "none"]
  /\ received = [c \in Clients |-> 0]
  /\ broadcasts = 0

\* The callers of the entry points.
Callers == 1..MaxCallers

\* The process starts with configuration c: no caller has entered, and
\* the global _agent of the tool layer is None.
DefaultConfig == [mode |-> "local", api_key |-> FALSE, max_steps |-> 1, retry_attempts |-> 0]
ToolNew(c) ==
  /\ config = c
  /\ _agent = "None"
  /\ tpos = [r \in Callers |-> "idle"]
  /\ entry = [r \in Callers |-> "none"]
  /\ calls = 0
  /\ executeCalls = 0
  /\ interactions = 0

\* UITreeParser.__init__(min_area, max_elements), nothing parsed yet.
ParserNew(min_area, max_elements) ==
  /\ parser = [min_area |-> min_area, max_elements |-> max_elements, _index_counter |-> 0]
  /\ dump = <<>>
  /\ parsed = <<>>
  /\ encoded = <<>>
  /\ compact = <<>>
  /\ parses = 0
  /\ first = <<>>
  /\ firstEncoded = <<>>
  /\ others = 0

\* The action req to encode, not yet encoded.
\* A MobileActionSchema: the thought as a sequence of characters, the
\* parameters as a dict (key/value pairs in insertion order), the
\* confidence in thousandths.  NotDecoded stands for no object.
NoRequest == [thought |-> <<>>, action |-> "done", params |-> <<>>, confidence |-> 0]
NotDecoded == [thought |-> <<>>, action |-> "", params |-> <<>>, confidence |-> 0]
SchemaNew(req) ==
  /\ request = req
  /\ wire = <<>>
  /\ decoded = NotDecoded

\* The tasks of the server, numbered as _run_task creates them; NoTask
\* stands for None.
TaskIds == 1..MaxRuns
NoTask == 0
NoReply == [type |-> "none", to |-> {}, text |-> ""]
NoMessage == [json |-> "none", command |-> "None", task |-> "None"]

\* MobileAgentWebSocketServer.__init__: self._current_task = None.
ChannelNew ==
  /\ _current_task = NoTask
  /\ job = [t \in TaskIds |-> "none"]
  /\ cancelling = {}
  /\ stopped = {}
  /\ terminal = [t \in TaskIds |-> 0]
  /\ handled = 0
  /\ last = [sender |-> NoClient, message |-> NoMessage]
  /\ reply = NoReply

\* No screen was read and no tap dispatched.
NoParams == [key |-> "", index |-> 0]
DispatchNew ==
  /\ latest = <<>>
  /\ asked = NoParams
  /\ tapped = NoCall

\* No text was compared.
NotEstimated == [outcome |-> "none"]
ReductionNew(t) ==
  /\ texts = t
  /\ estimate = NotEstimated

\* ScreenshotPipeline.__init__ (lines 50-70): self._history = [].
CaptureIds == 1..MaxCaptures
PipelineNew(max) ==
  /\ pipeline = [max_history |-> max, _history |-> <<>>]
  /\ capture = [c \in CaptureIds |-> "none"]
  /\ succeeded = <<>>

\* A quotient n / d, kept as the pair of its terms; 0.0 is Zero.
Ratio(n, d) == <<n, d>>
Zero == Ratio(0, 1)

\* TaskMetrics as start_task creates it (lines 12-42, 95-104); the cost is
\* counted in units of half a dollar per million tokens.  NoMetrics stands
\* for None.
TaskMetrics ==
  [none |-> FALSE, prompt_tokens |-> 0, completion_tokens |-> 0, total_tokens |-> 0,
   baseline_tokens |-> 0, comptext_tokens |-> 0, token_reduction_percent |-> Zero,
   steps_count |-> 0, successful_steps |-> 0, failed_steps |-> 0, total_duration_ms |-> 0,
   avg_step_duration_ms |-> Zero, estimated_cost_usd |-> 0, success |-> FALSE]
NoMetrics == [TaskMetrics EXCEPT !.none = TRUE]

\* PerformanceMetrics() (lines 45-70).
PerformanceMetrics ==
  [total_tasks |-> 0, successful_tasks |-> 0, failed_tasks |-> 0, total_tokens |-> 0,
   total_prompt_tokens |-> 0, total_completion_tokens |-> 0, total_baseline_tokens |-> 0,
   total_comptext_tokens |-> 0, avg_token_reduction_percent |-> Zero,
   total_duration_ms |-> 0, avg_task_duration_ms |-> Zero, avg_step_duration_ms |-> Zero,
   total_steps |-> 0, successful_steps |-> 0, total_cost_usd |-> 0,
   avg_cost_per_task_usd |-> Zero, task_success_rate |-> Zero, step_success_rate |-> Zero]

\* TokenMetricsCollector.__init__ (lines 89-92).
CollectorNew ==
  /\ collector = [tasks |-> <<>>, _current_task |-> NoMetrics]
  /\ report = PerformanceMetrics
  /\ mop = "none"
  /\ mcalls = 0
  /\ completions = 0

UtilNew ==
  /\ DispatchNew
  /\ ReductionNew([verbose |-> 0, comptext |-> 0])
  /\ PipelineNew(MaxHistory)
  /\ CollectorNew

\* The parts around the agent as constructed.
PeripheryNew ==
  /\ ServerNew
  /\ ChannelNew
  /\ ToolNew(DefaultConfig)
  /\ ParserNew(100, 50)
  /\ SchemaNew(NoRequest)
  /\ UtilNew

\* The configuration of the agent in the specifications of its parts.
OneStepConfig == [max_steps |-> 1, retry_attempts |-> 0, max_retries |-> 0]

Init ==
  /\ \E c \in [max_steps : 1..MaxStepsBound,
               retry_attempts : 0..MaxRetryAttempts,
               max_retries : 0..MaxRetriesBound] : AgentNew(c)
  /\ MemoryNew(ContextMemorySize)
  /\ ClientNew
  /\ DeviceNew(NoSerial)
  /\ EmitterNew(NoBroadcast)
  /\ PeripheryNew

\* ------------------------------------------------------------------------
\* MobileAgent.execute
\* ------------------------------------------------------------------------
\* Variant: the loop runs once more than max_steps (range(max_steps + 1)).
RangeStop_OffByOne(max_steps) == max_steps + 1

\* range(self.config.agent.max_steps): the loop runs for indices below this.
RangeStop(max_steps) == max_steps

\* step_num < self.config.agent.retry_attempts (line 241)
RetryContinues(k, retry_attempts) == k < retry_attempts

\* Variant: the handler catches transport errors only (except httpx.HTTPError).
Caught_TransportOnly(exc) == exc = "HTTPError"

\* The classes "except Exception" (line 256) catches.
Caught(exc) == exc \in {"HTTPError", "KeyError", "TypeError", "AttributeError", "RuntimeError"}

\* Variant: exhaustion records the error but leaves the state as it is.
PostLoop_StateKept(res, st, scr, t) ==
  LET r1 == [res EXCEPT !.final_screen = scr, !.total_duration_ms = t - start_time]
  IN IF ~r1.success /\ st # "failed"
     THEN [result |-> [r1 EXCEPT !.error = MaxStepsError], state |-> st]
     ELSE [result |-> r1, state |-> st]

\* Lines 249-254, reached when the loop ends or breaks, at time t.
PostLoop(res, st, scr, t) ==
  LET r1 == [res EXCEPT !.final_screen = scr, !.total_duration_ms = t - start_time]
  IN IF ~r1.success /\ st # "failed"
     THEN [result |-> [r1 EXCEPT !.error = MaxStepsError], state |-> "failed"]
     ELSE [result |-> r1, state |-> st]

\* The handler of lines 256-259.
Handler(res, exc) == [result |-> [res EXCEPT !.error = exc], state |-> "failed"]

\* The loop ends or breaks: lines 249-254, then return result.
Finish(res, st, scr, t) ==
  /\ result' = PostLoop(res, st, scr, t).result
  /\ state' = PostLoop(res, st, scr, t).state
  /\ pc' = "returned"
  /\ UNCHANGED <<step_num, attempt, modelCalls, ollama>>

\* An exception exc is raised inside the try block.
Except(res, exc) ==
  /\ IF Caught(exc)
     THEN /\ result' = Handler(res, exc).result
          /\ state' = Handler(res, exc).state
          /\ pc' = "returned"
     ELSE /\ result' = res
          /\ state' = state
          /\ pc' = "raised"
  /\ UNCHANGED <<step_num, attempt, modelCalls, ollama>>

\* The for statement takes index k (lines 176-181: state PLANNING, then
\* await self.ollama.chat, which begins with _ensure_client), or the loop is
\* exhausted.
Iterate(k, res, st, scr, t) ==
  IF k < RangeStop(cfg.max_steps)
  THEN /\ step_num' = k
       /\ state' = "planning"
       /\ result' = res
       /\ attempt' = 0
       /\ modelCalls' = modelCalls + 1
       /\ ollama' = _ensure_client(ollama)
       /\ pc' = "chat"
  ELSE Finish(res, st, scr, t)

\* execute(task) is called: lines 163-171, up to await get_screen_state().
Execute ==
  /\ pc \in {"idle", "returned"}
  /\ tasks < MaxTasks
  /\ tasks' = tasks + 1
  /\ now' = 0
  /\ start_time' = 0
  /\ state' = "planning"
  /\ result' = NewResult
  /\ pc' = "read0"
  /\ step_num' = 0
  /\ screen' = NoScreen
  /\ response' = NoResponse
  /\ action_data' = None
  /\ step' = NoStep
  /\ call' = NoCall
  /\ attempt' = 0
  /\ modelCalls' = 0
  /\ deviceActions' = 0
  /\ failures' = 0
  /\ skips' = 0
  /\ unparsed' = 0
  /\ tokensReceived' = 0
  /\ UNCHANGED <<cfg, ollama, _context_memory, OtherParts>>

\* The initial get_screen_state() returns scr: lines 171-181.
InitialScreen(scr) ==
  /\ pc = "read0"
  /\ screen' = scr
  /\ _context_memory' = _add_to_context(_context_memory, scr, context_memory_size)
  /\ now' = now + 1
  /\ Iterate(0, result, state, scr, now + 1)
  /\ UNCHANGED <<cfg, response, action_data, step, call, start_time, tasks, deviceActions,
                 failures, skips, unparsed, tokensReceived, OtherParts>>

\* Variant: one retry more than configured (attempt <= max_retries).
MayRetry_OneMore(a, max_retries) == a <= max_retries

\* if attempt < self.config.max_retries (line 243): sleep, then the next
\* iteration of "for attempt in range(max_retries + 1)" sends a new request.
MayRetry(a, max_retries) == a < max_retries

\* A request of _request_with_retry fails with an httpx.HTTPError: it is
\* retried after a delay while attempt < max_retries, then the last error
\* is raised out of chat().
RequestFails ==
  /\ pc = "chat"
  /\ now' = now + 1
  /\ IF MayRetry(attempt, cfg.max_retries)
     THEN /\ attempt' = attempt + 1
          /\ UNCHANGED <<pc, state, result, step_num, modelCalls, ollama>>
     ELSE Except(result, "HTTPError")
  /\ UNCHANGED <<cfg, screen, response, action_data, step, call, start_time, tasks,
                 deviceActions, failures, skips, unparsed, tokensReceived, _context_memory,
                 OtherParts>>

\* The request succeeds but the body lacks the members chat() reads
\* (response["choices"][0], ...): chat() raises KeyError.
RequestMalformed ==
  /\ pc = "chat"
  /\ now' = now + 1
  /\ Except(result, "KeyError")
  /\ UNCHANGED <<cfg, screen, response, action_data, step, call, start_time, tasks,
                 deviceActions, failures, skips, unparsed, tokensReceived, _context_memory,
                 OtherParts>>

\* Variant: completion is tested against another action name.
IsDone_WrongName(d) == Get(d, "action", NoneVal) = Str("finish")

\* action_data.get("action") == "done" (line 199)
IsDone(d) == Get(d, "action", NoneVal) = Str("done")

\* Variant: no response is skipped (the test of line 186 is missing).
Skipped_Never(a) == FALSE

\* Variant: only None is skipped (if action_data is None).
Skipped_NoneOnly(a) == a.none

\* if not action_data (line 186)
Skipped(a) == ~Truthy(a)

\* Variant: the tokens of a response are counted only when it is decoded.
AddTokens_Decoded(total, r) ==
  IF r.null \/ NoAction(r) THEN total ELSE total + r.total_tokens

\* result.total_tokens += response.total_tokens (line 183)
AddTokens(total, r) == total + r.total_tokens

\* chat() returns r: lines 182-212, up to await self._execute_action.
ChatReturns(r) ==
  /\ pc = "chat"
  /\ now' = now + 1
  /\ response' = r
  /\ unparsed' = IF NoAction(r) THEN unparsed + 1 ELSE unparsed
  /\ tokensReceived' = tokensReceived + r.total_tokens
  /\ LET res == [result EXCEPT !.total_tokens = AddTokens(@, r)]
         a == _parse_action(r.content)
         st == [step_number |-> step_num + 1,
                action |-> Get(a.d, "action", Str("unknown")),
                success |-> FALSE,
                tokens_used |-> r.total_tokens]
     IN IF r.null
        THEN /\ Except(res, "TypeError")
             /\ UNCHANGED <<action_data, step, call, skips>>
        ELSE IF Skipped(a)
        THEN /\ skips' = skips + 1
             /\ action_data' = a
             /\ Iterate(step_num + 1, res, state, screen, now + 1)
             /\ UNCHANGED <<step, call>>
        ELSE IF IsDone(a.d)
        THEN /\ action_data' = a
             /\ step' = [st EXCEPT !.success = TRUE]
             /\ Finish([res EXCEPT !.steps = Append(@, [st EXCEPT !.success = TRUE]),
                                   !.success = TRUE],
                       "completed", screen, now + 1)
             /\ UNCHANGED <<call, skips>>
        ELSE /\ action_data' = a
             /\ step' = st
             /\ call' = _execute_action(a.d, screen)
             /\ state' = "executing"
             /\ result' = res
             /\ pc' = "exec"
             /\ UNCHANGED <<step_num, attempt, modelCalls, ollama, skips>>
  /\ UNCHANGED <<cfg, screen, start_time, tasks, deviceActions, failures, _context_memory,
                 OtherParts>>

\* _execute_action completes with a device outcome ok: lines 212-217, up to
\* the awaits of the settle delay and of get_screen_state().
ExecuteAction(ok) ==
  /\ pc = "exec"
  /\ now' = now + 1
  /\ CASE call.kind = "raise" ->
            /\ ok
            /\ Except(result, call.error)
            /\ UNCHANGED <<step, deviceActions>>
       [] call.kind = "fail" ->
            /\ ~ok
            /\ step' = [step EXCEPT !.success = FALSE]
            /\ state' = "verifying"
            /\ pc' = "verify"
            /\ UNCHANGED <<result, step_num, attempt, modelCalls, ollama, deviceActions>>
       [] OTHER ->
            /\ ok \/ CanFail(call)
            /\ step' = [step EXCEPT !.success = ok]
            /\ deviceActions' = deviceActions + 1
            /\ state' = "verifying"
            /\ pc' = "verify"
            /\ UNCHANGED <<result, step_num, attempt, modelCalls, ollama>>
  /\ UNCHANGED <<cfg, screen, response, action_data, call, start_time, tasks, failures, skips,
                 unparsed, tokensReceived, _context_memory, OtherParts>>

\* The screen re-read returns scr: lines 218-247.
ScreenReread(scr) ==
  /\ pc = "verify"
  /\ now' = now + 1
  /\ screen' = scr
  /\ _context_memory' = _add_to_context(_context_memory, scr, context_memory_size)
  /\ LET res == [result EXCEPT !.steps = Append(@, step)]
     IN IF step.success
        THEN /\ Iterate(step_num + 1, res, state, scr, now + 1)
             /\ UNCHANGED failures
        ELSE /\ failures' = failures + 1
             /\ IF RetryContinues(step_num, cfg.retry_attempts)
                THEN Iterate(step_num + 1, res, state, scr, now + 1)
                ELSE Finish([res EXCEPT !.error = ActionFailedError], "failed", scr, now + 1)
  /\ UNCHANGED <<cfg, response, action_data, step, call, start_time, tasks, deviceActions,
                 skips, unparsed, tokensReceived, OtherParts>>

\* The steps of an invocation in progress.
Step ==
  \/ \E scr \in Screens : InitialScreen(scr) /\ UNCHANGED eventVars
  \/ RequestFails /\ UNCHANGED eventVars
  \/ RequestMalformed /\ UNCHANGED eventVars
  \/ \E r \in Responses : ChatReturns(r) /\ UNCHANGED eventVars
  \/ \E ok \in BOOLEAN : ExecuteAction(ok) /\ UNCHANGED eventVars
  \/ \E scr \in Screens : ScreenReread(scr) /\ UNCHANGED eventVars

Next ==
  \/ Execute /\ UNCHANGED eventVars
  \/ Step

Spec == Init /\ [][Next]_vars

\* The stop command cancels the task that runs execute()
\* (self._current_task.cancel()): CancelledError is thrown at the await
\* execute() is suspended on.  It is a BaseException, which "except
\* Exception" (line 256) does not catch, so it leaves execute() and the
\* frame that holds the local result is unwound without "return result".
Stop ==
  /\ pc \in {"read0", "chat", "exec", "verify"}
  /\ pc' = "cancelled"
  /\ UNCHANGED <<cfg, state, step_num, screen, response, action_data, step, call, result,
                 attempt, now, start_time, tasks, modelCalls, deviceActions, failures, skips,
                 unparsed, tokensReceived, ollama, _context_memory, OtherParts>>

NextStop ==
  \/ Execute /\ UNCHANGED eventVars
  \/ Step
  \/ Stop /\ UNCHANGED eventVars

\* execute() with a stop command that may arrive at any await.
StopSpec == Init /\ [][NextStop]_vars

\* Every model call and every device command eventually returns or raises.
FairSpec == Spec /\ WF_vars(Step)

\* time.time() is the system clock (lines 163, 177, 221, 250): while
\* execute() is suspended at an await the clock is set back (by an NTP step
\* or by hand), so the next reading is lower than the previous one.
ClockSetBack ==
  /\ pc \in {"read0", "chat", "exec", "verify"}
  /\ start_time - now < MaxSetBack
  /\ now' = now - 1
  /\ UNCHANGED <<cfg, pc, state, step_num, screen, response, action_data, step, call, result,
                 attempt, start_time, tasks, modelCalls, deviceActions, failures, skips,
                 unparsed, tokensReceived, ollama, _context_memory, OtherParts>>

NextClock ==
  \/ Execute /\ UNCHANGED eventVars
  \/ Step
  \/ ClockSetBack /\ UNCHANGED eventVars

\* execute() on a machine whose clock may be set back.
ClockSpec == Init /\ [][NextClock]_vars

\* ------------------------------------------------------------------------
\* OllamaCloudClient: __aenter__, chat, close, __aexit__ called one after
\* the other by the owner of the client
\* ------------------------------------------------------------------------
Count(seq, x) == Cardinality({i \in 1..Len(seq) : seq[i] = x})

\* The owner is inside "async with client".
InScope == Count(ops, "aenter") > Count(ops, "aexit")

\* async with client: __aenter__ (lines 81-83).
AEnter ==
  /\ cpos = "idle"
  /\ ~InScope
  /\ Len(ops) < MaxOps
  /\ ops' = Append(ops, "aenter")
  /\ ollama' = _ensure_client(ollama)
  /\ UNCHANGED <<cpos, agentVars, eventVars, peripheryVars, memoryVars, deviceVars>>

\* chat() is called: _ensure_client(), then await the request (line 143).
Chat ==
  /\ cpos = "idle"
  /\ Len(ops) < MaxOps
  /\ ops' = Append(ops, "chat")
  /\ ollama' = _ensure_client(ollama)
  /\ cpos' = "request"
  /\ UNCHANGED <<agentVars, eventVars, peripheryVars, memoryVars, deviceVars>>

\* The request returns or raises; the connection is kept either way.
ChatEnds ==
  /\ cpos = "request"
  /\ cpos' = "idle"
  /\ UNCHANGED <<ollama, ops, agentVars, eventVars, peripheryVars, memoryVars, deviceVars>>

\* close() (lines 103-107), called directly (name "close") or by __aexit__
\* when the scope is left (name "aexit"): with a connection held it awaits
\* aclose(), otherwise it returns at once.
Close(name) ==
  /\ cpos = "idle"
  /\ Len(ops) < MaxOps
  /\ name = "aexit" => InScope
  /\ ops' = Append(ops, name)
  /\ cpos' = IF ollama._client # NoClient THEN "aclose" ELSE "idle"
  /\ UNCHANGED <<ollama, agentVars, eventVars, peripheryVars, memoryVars, deviceVars>>

\* aclose() returns: the connection is closed, then self._client = None.
AcloseReturns ==
  /\ cpos = "aclose"
  /\ ollama' = [ollama EXCEPT !.live = @ \ {ollama._client}, !._client = NoClient]
  /\ cpos' = "idle"
  /\ UNCHANGED <<ops, agentVars, eventVars, peripheryVars, memoryVars, deviceVars>>

ClientNext ==
  \/ AEnter
  \/ Chat
  \/ ChatEnds
  \/ \E name \in {"close", "aexit"} : Close(name)
  \/ AcloseReturns

ClientInit ==
  /\ AgentNew(OneStepConfig)
  /\ MemoryNew(ContextMemorySize)
  /\ ClientNew
  /\ DeviceNew(NoSerial)
  /\ EmitterNew(NoBroadcast)
  /\ PeripheryNew

ClientSpec == ClientInit /\ [][ClientNext]_vars

\* ------------------------------------------------------------------------
\* DroidRunWrapper and ScreenshotPipeline: operations and bridge commands
\* ------------------------------------------------------------------------
Serials == {"emulator-5554", "R58M"}
Statuses == {"device", "offline"}
Header == <<"List of devices attached">>

\* Outputs of "adb devices": the header, then one line per device, a line
\* being its fields between tabs (serial, status); each serial at most once.
Listings ==
  {<<Header>> \o ls :
     ls \in {l \in UNION {[1..n -> Serials \X Statuses] : n \in 0..MaxListed} :
               \A i, j \in 1..Len(l) : i # j => l[i][1] # l[j][1]}}

\* Variant: every listed device counts, whatever its status.
Devices_AnyStatus(out) ==
  LET lines == IF out = <<>> THEN <<>> ELSE Tail(out)
  IN SelectSeq([i \in 1..Len(lines) |-> lines[i][1]], LAMBDA d : TRUE)

\* lines = result.strip().split("\n")[1:];
\* devices = [line.split("\t")[0] for line in lines if "\tdevice" in line]
Devices(out) ==
  LET lines == IF out = <<>> THEN <<>> ELSE Tail(out)
      kept == SelectSeq(lines, LAMBDA line : \E i \in 2..Len(line) : line[i] = "device")
  IN [i \in 1..Len(kept) |-> kept[i][1]]

\* The operations of the DeviceController, and capture() of the
\* ScreenshotPipeline.
ControllerOps ==
  {"tap", "tap_element", "swipe", "type_text", "press_key", "back", "home", "launch_app",
   "wait", "screenshot"}
DeviceOps == ControllerOps \cup {"connect", "capture"}

\* Bridge commands an operation awaits one after the other: screenshot()
\* runs screencap, pull and rm; capture() awaits screencap and pull (its rm
\* is started and not awaited); wait() runs none.
Commands(op) ==
  CASE op = "wait" -> 0
    [] op = "screenshot" -> 3
    [] op = "capture" -> 2
    [] OTHER -> 1

\* Whether the commands of op run under asyncio.wait_for: those of
\* _adb_command do (lines 537-540), those of capture() do not.
UnderTimeout(op) == op # "capture"

\* str(e) of what a bridge command raises: RuntimeError("ADB command
\* failed: ...") on a non-zero exit code, the OSError of a missing adb
\* binary, the TimeoutError of wait_for, whose text is empty.
ErrorText(outcome) ==
  CASE outcome = "nonzero" -> "ADB command failed"
    [] outcome = "oserror" -> "No such file or directory"
    [] OTHER -> ""

\* What the operation gives its caller when a bridge command fails.
OnFailure(op, outcome) ==
  CASE op = "connect" -> [kind |-> "bool", success |-> FALSE, error |-> "None"]
    [] op = "screenshot" -> [kind |-> "raised", success |-> FALSE, error |-> ErrorText(outcome)]
    [] op = "capture" ->
         [kind |-> "ScreenshotResult", success |-> FALSE,
          error |-> IF outcome = "nonzero" THEN "screencap or pull failed"
                    ELSE ErrorText(outcome)]
    [] OTHER -> [kind |-> "ActionResult", success |-> FALSE, error |-> ErrorText(outcome)]

\* What the operation gives its caller when its commands succeeded.
OnSuccess(op) ==
  CASE op = "screenshot" -> [kind |-> "str", success |-> TRUE, error |-> "None"]
    [] op = "capture" -> [kind |-> "ScreenshotResult", success |-> TRUE, error |-> "None"]
    [] OTHER -> [kind |-> "ActionResult", success |-> TRUE, error |-> "None"]

\* connect() after "adb devices" printed out (lines 191-208).
Connect(dev, out) ==
  LET devices == Devices(out)
  IN IF devices = <<>>
     THEN [device |-> dev, ret |-> FALSE]
     ELSE IF dev.device_serial # NoSerial
     THEN IF \A i \in 1..Len(devices) : devices[i] # dev.device_serial
          THEN [device |-> dev, ret |-> FALSE]
          ELSE [device |-> [dev EXCEPT !._device_connected = TRUE], ret |-> TRUE]
     ELSE [device |-> [dev EXCEPT !.device_serial = devices[1], !._device_connected = TRUE],
           ret |-> TRUE]

\* An operation is called: it starts its first bridge command and awaits
\* it; wait() sleeps.
Call(op) ==
  /\ dpos = "idle"
  /\ dop' = op
  /\ dres' = NoResult
  /\ dpos' = IF Commands(op) = 0 THEN "sleep" ELSE "communicate"
  /\ dcmd' = IF Commands(op) = 0 THEN 0 ELSE 1
  /\ timer' = (Commands(op) > 0 /\ UnderTimeout(op))
  /\ UNCHANGED <<device, listing, agentVars, eventVars, peripheryVars, memoryVars, clientVars>>

\* asyncio.sleep(seconds) of wait() returns.
SleepEnds ==
  /\ dpos = "sleep"
  /\ dpos' = "idle"
  /\ dres' = OnSuccess(dop)
  /\ UNCHANGED <<device, dop, dcmd, timer, listing, agentVars, eventVars, peripheryVars, memoryVars, clientVars>>

\* The bridge command awaited exits with code 0 and output out (which only
\* connect() reads): the operation starts its next command or returns.
CommandSucceeds(out) ==
  /\ dpos = "communicate"
  /\ IF dcmd < Commands(dop)
     THEN /\ dcmd' = dcmd + 1
          /\ UNCHANGED <<device, dpos, timer, dres, listing>>
     ELSE /\ dpos' = "idle"
          /\ timer' = FALSE
          /\ IF dop = "connect"
             THEN /\ listing' = [ok |-> TRUE, out |-> out]
                  /\ device' = Connect(device, out).device
                  /\ dres' = [kind |-> "bool", success |-> Connect(device, out).ret,
                              error |-> "None"]
             ELSE /\ dres' = OnSuccess(dop)
                  /\ UNCHANGED <<device, listing>>
          /\ UNCHANGED dcmd
  /\ UNCHANGED <<dop, agentVars, eventVars, peripheryVars, memoryVars, clientVars>>

\* The bridge command awaited fails: the process exits with a non-zero
\* code, or it could not be started.
CommandFails(outcome) ==
  /\ dpos = "communicate"
  /\ dpos' = "idle"
  /\ timer' = FALSE
  /\ dres' = OnFailure(dop, outcome)
  /\ listing' = IF dop = "connect" THEN NoListing ELSE listing
  /\ UNCHANGED <<device, dop, dcmd, agentVars, eventVars, peripheryVars, memoryVars, clientVars>>

\* The timeout of asyncio.wait_for expires before the process answers.
TimerFires ==
  /\ dpos = "communicate"
  /\ timer
  /\ dpos' = "idle"
  /\ timer' = FALSE
  /\ dres' = OnFailure(dop, "timeout")
  /\ listing' = IF dop = "connect" THEN NoListing ELSE listing
  /\ UNCHANGED <<device, dop, dcmd, agentVars, eventVars, peripheryVars, memoryVars, clientVars>>

DeviceNext ==
  \/ \E op \in DeviceOps : Call(op)
  \/ SleepEnds
  \/ \E out \in Listings : CommandSucceeds(out)
  \/ \E outcome \in {"nonzero", "oserror"} : CommandFails(outcome)
  \/ TimerFires

DeviceInit ==
  /\ AgentNew(OneStepConfig)
  /\ MemoryNew(ContextMemorySize)
  /\ ClientNew
  /\ \E serial \in Serials \cup {NoSerial} : DeviceNew(serial)
  /\ EmitterNew(NoBroadcast)
  /\ PeripheryNew

DeviceSpec == DeviceInit /\ [][DeviceNext]_vars

\* ------------------------------------------------------------------------
\* MobileAgent: the screen memory over any sequence of screen reads
\* ------------------------------------------------------------------------
\* The agent read screen scr (lines 171-172 and 218-220):
\* self._add_to_context(screen).
ReadScreen(scr) ==
  /\ Len(reads) < MaxReads
  /\ reads' = Append(reads, scr)
  /\ _context_memory' = _add_to_context(_context_memory, scr, context_memory_size)
  /\ UNCHANGED <<context_memory_size, agentVars, eventVars, peripheryVars, clientVars, deviceVars>>

MemoryNext == \E scr \in Screens : ReadScreen(scr)

MemoryInit ==
  /\ AgentNew(OneStepConfig)
  /\ \E n \in 0..MaxContextSize : MemoryNew(n)
  /\ ClientNew
  /\ DeviceNew(NoSerial)
  /\ EmitterNew(NoBroadcast)
  /\ PeripheryNew

MemorySpec == MemoryInit /\ [][MemoryNext]_vars

\* ------------------------------------------------------------------------
\* WebSocketMobileAgent.execute
\* ------------------------------------------------------------------------
\* Variant: _emit calls the callback outside any try statement.
_emit_NoHandler(b, ev) ==
  [handed |-> IF b \in {"succeeds", "raises"} THEN <<ev>> ELSE <<>>,
   raised |-> b = "raises"]

\* self._emit(ev) with callback b (lines 96-107): the callback is called
\* when there is one; what it raises (asyncio.create_task raises
\* RuntimeError) meets "except Exception".
_emit(b, ev) ==
  [handed |-> IF b \in {"succeeds", "raises"} THEN <<ev>> ELSE <<>>,
   raised |-> b = "raises" /\ ~Caught("RuntimeError")]

\* The handler of line 295 was entered: the error of the result is the
\* text of an exception.
Handled(res) == res.error \notin {NoError, MaxStepsError, ActionFailedError}

\* What a step of _execute_with_events emits after its own events: the
\* next iteration begins (lines 172-182), or the method returns and
\* execute() reports the result (lines 127-139, after line 299 when the
\* handler ran), or the exception leaves execute() (line 144).
Closing ==
  IF pc' = "chat" /\ modelCalls' = modelCalls + 1
  THEN <<"step_started", "state_changed">>
  ELSE IF pc' = "returned"
  THEN (IF Handled(result') THEN <<"error">> ELSE <<>>)
       \o <<IF result'.success THEN "task_completed" ELSE "task_failed">>
  ELSE IF pc' = "raised" THEN <<"error">>
  ELSE <<>>

\* The callback is handed the events evs, one call of _emit each.
Handed(b, evs) == IF evs = <<>> THEN <<>> ELSE IF _emit(b, evs[1]).handed = <<>> THEN <<>> ELSE evs

\* self._emit(EventType.STATE_CHANGED, {"state": self._state.value})
\* (lines 182, 215, 219, 232): each follows the assignment of self._state,
\* and a step emits it at most once, as the last thing that touches the
\* state; st is the state the step leaves.
Carried(evs, st, before) ==
  IF \E i \in 1..Len(evs) : evs[i] = "state_changed" THEN st ELSE before

\* An exception leaves _emit: inside the try block it meets the handler of
\* line 295, whose own _emit (line 299) raises again, and so does the one of
\* line 144; execute() raises.
Abort(st) ==
  /\ pc' = "raised"
  /\ state' = st
  /\ events' = <<"error">>
  /\ UNCHANGED <<cfg, step_num, screen, response, action_data, step, call, result, attempt,
                 now, start_time, tasks, modelCalls, deviceActions, failures, skips, unparsed,
                 tokensReceived, ollama, _context_memory, _broadcast, announced, OtherParts>>

\* A step of the event-emitting orchestrator: the statements A it shares
\* with MobileAgent.execute, and the events head that it emits between
\* them, followed by those of Closing.  A step that is not silent emits at
\* least one event.
Observed(guard, A, silent, head) ==
  IF ~silent /\ _emit(_broadcast, "any").raised
  THEN guard /\ Abort("failed")
  ELSE /\ A
       /\ events' = Handed(_broadcast, head \o Closing)
       /\ announced' = Carried(events', state', announced)
       /\ UNCHANGED _broadcast

\* execute(task) is called (lines 109-125, 152-160): TASK_STARTED is
\* emitted before the try statement.
WsExecute ==
  IF _emit(_broadcast, "task_started").raised
  THEN pc \in {"idle", "returned"} /\ tasks < MaxTasks /\ Abort(state)
  ELSE /\ Execute
       /\ events' = Handed(_broadcast, <<"task_started">>)
       /\ announced' = "none"
       /\ UNCHANGED _broadcast

\* The steps of _execute_with_events (lines 147-301).
WsStep ==
  \/ \E scr \in Screens :
       Observed(pc = "read0", InitialScreen(scr), FALSE, <<"screen_updated">>)
  \/ Observed(pc = "chat", RequestFails, MayRetry(attempt, cfg.max_retries), <<>>)
  \/ Observed(pc = "chat", RequestMalformed, FALSE, <<>>)
  \/ \E r \in Responses :
       Observed(pc = "chat", ChatReturns(r), FALSE,
                <<"tokens_used">>
                \o (IF pc' = "exec" \/ result'.success THEN <<"state_changed">> ELSE <<>>))
  \/ \E ok \in BOOLEAN :
       Observed(pc = "exec", ExecuteAction(ok), FALSE,
                IF pc' = "verify" THEN <<"action_executed", "state_changed">> ELSE <<>>)
  \/ \E scr \in Screens :
       Observed(pc = "verify", ScreenReread(scr), FALSE,
                <<"screen_updated", "step_completed", "progress_update">>)

\* A WebSocketMobileAgent built with a callback that is None, that works
\* or that raises.
WsInit ==
  /\ \E c \in [max_steps : 1..MaxStepsBound,
               retry_attempts : 0..MaxRetryAttempts,
               max_retries : 0..MaxRetriesBound] : AgentNew(c)
  /\ MemoryNew(ContextMemorySize)
  /\ ClientNew
  /\ DeviceNew(NoSerial)
  /\ \E b \in {"absent", "succeeds", "raises"} : EmitterNew(b)
  /\ PeripheryNew

WsSpec == WsInit /\ [][WsExecute \/ WsStep]_vars

\* ------------------------------------------------------------------------
\* MobileAgentWebSocketServer._broadcast
\* ------------------------------------------------------------------------
\* Variant: asyncio.gather without return_exceptions, which raises the
\* first exception of a send() in the awaiting coroutine.
gather_FirstException(results) ==
  IF \E c \in DOMAIN results : results[c] = "failed" THEN "raised" ELSE "returned"

\* await asyncio.gather(..., return_exceptions=True) with every awaitable
\* done (line 513-516): exceptions are results, and _broadcast() returns.
gather(results) == "returned"

\* _handler: a client connects (self._clients.add, line 371).
Register(c) ==
  /\ c \notin _clients
  /\ _clients' = _clients \cup {c}
  /\ UNCHANGED <<bpos, pending, targets, sendResult, received, broadcasts, coreVars, channelVars, toolVars, pureVars>>

\* _handler: the connection of a client ends (self._clients.discard, line 391).
Unregister(c) ==
  /\ c \in _clients
  /\ _clients' = _clients \ {c}
  /\ UNCHANGED <<bpos, pending, targets, sendResult, received, broadcasts, coreVars, channelVars, toolVars, pureVars>>

\* _broadcast(event) is called (lines 507-516): with no client it returns
\* at once; otherwise one send() is created for each member of the set
\* self._clients and gather awaits them all.
Broadcast ==
  /\ bpos \in {"idle", "returned"}
  /\ broadcasts < MaxBroadcasts
  /\ broadcasts' = broadcasts + 1
  /\ targets' = _clients
  /\ pending' = _clients
  /\ sendResult' = [c \in Clients |-> "none"]
  /\ received' = [c \in Clients |-> 0]
  /\ bpos' = IF _clients = {} THEN "returned" ELSE "gather"
  /\ UNCHANGED <<_clients, coreVars, channelVars, toolVars, pureVars>>

\* client.send(message) to client c ends: the client received the message
\* (ok) or the send raised.  When it was the last one, gather is done.
SendEnds(c, ok) ==
  /\ bpos = "gather"
  /\ c \in pending
  /\ pending' = pending \ {c}
  /\ sendResult' = [sendResult EXCEPT ![c] = IF ok THEN "ok" ELSE "failed"]
  /\ received' = [received EXCEPT ![c] = IF ok THEN @ + 1 ELSE @]
  /\ bpos' = IF pending' = {} THEN gather(sendResult') ELSE bpos
  /\ UNCHANGED <<_clients, targets, broadcasts, coreVars, channelVars, toolVars, pureVars>>

ServerNext ==
  \/ \E c \in Clients : Register(c)
  \/ \E c \in Clients : Unregister(c)
  \/ Broadcast
  \/ \E c \in Clients, ok \in BOOLEAN : SendEnds(c, ok)

ServerInit ==
  /\ AgentNew(OneStepConfig)
  /\ MemoryNew(ContextMemorySize)
  /\ ClientNew
  /\ DeviceNew(NoSerial)
  /\ EmitterNew(NoBroadcast)
  /\ ServerNew
  /\ ToolNew(DefaultConfig)
  /\ ParserNew(100, 50)
  /\ SchemaNew(NoRequest)
  /\ ChannelNew
  /\ UtilNew

ServerSpec == ServerInit /\ [][ServerNext]_vars

\* ------------------------------------------------------------------------
\* The entry points: run_mobile_task, the CLI, the WebSocket server, the tools
\* ------------------------------------------------------------------------
\* MobileAgentConfig.validate (config.py, lines 89-103): the list of errors.
validate(c) ==
  (IF c.mode \in {"cloud", "hybrid"} /\ ~c.api_key THEN {"OLLAMA_API_KEY is required"} ELSE {})
  \cup (IF c.max_steps < 1 THEN {"max_steps must be at least 1"} ELSE {})
  \cup (IF c.retry_attempts < 0 THEN {"retry_attempts cannot be negative"} ELSE {})

Configs ==
  [mode : {"cloud", "local", "hybrid"}, api_key : BOOLEAN, max_steps : {0, 1},
   retry_attempts : {-1, 0}]

Entries == {"run_mobile_task", "cli", "websocket", "tool"}

\* Whether the entry point tests what initialize() returned:
\* "if not await agent.initialize(): return ..." (mobile_agent.py line 506,
\* cli.py line 191, websocket_server.py line 445); _get_agent awaits
\* initialize() and drops the value (mcp_tools.py line 29).
TestsInitialize(e) == e # "tool"

\* The MobileAgent a caller uses: the global _agent in the tool layer, an
\* agent of its own ("async with MobileAgent(...)") elsewhere.
Instance(r) == IF entry[r] = "tool" THEN 0 ELSE r

\* In a position from which the caller still uses its agent.
Busy(r) == tpos[r] \in {"initialize", "execute"}

\* execute() is called for caller r: it runs up to its first await, the
\* device command of get_screen_state().
CallExecute(r) ==
  /\ tpos' = [tpos EXCEPT ![r] = "execute"]
  /\ executeCalls' = executeCalls + 1
  /\ interactions' = interactions + 1

\* The caller returns without calling initialize() or execute().
Leave(r) ==
  /\ tpos' = [tpos EXCEPT ![r] = "done"]
  /\ UNCHANGED <<executeCalls, interactions>>

\* Caller r enters through entry point e, up to the first await.
\* cli.py lines 157-162 validate and exit; _run_task of the server (lines
\* 433-438) refuses while its task runs; _get_agent (mcp_tools.py lines
\* 24-30) creates and initializes the agent only when _agent is None.
EnterTask(r, e) ==
  /\ ~Busy(r)
  /\ calls < MaxCalls
  /\ calls' = calls + 1
  /\ entry' = [entry EXCEPT ![r] = e]
  /\ IF e = "cli" /\ validate(config) # {}
     THEN Leave(r) /\ UNCHANGED _agent
     ELSE IF e = "websocket" /\ \E q \in Callers : entry[q] = "websocket" /\ Busy(q)
     THEN Leave(r) /\ UNCHANGED _agent
     ELSE IF e = "tool" /\ _agent # "None"
     THEN CallExecute(r) /\ UNCHANGED _agent
     ELSE /\ tpos' = [tpos EXCEPT ![r] = "initialize"]
          /\ _agent' = IF e = "tool" THEN "MobileAgent" ELSE _agent
          /\ UNCHANGED <<executeCalls, interactions>>
  /\ UNCHANGED <<config, coreVars, serverVars, channelVars, pureVars>>

\* initialize() of caller r ends (mobile_agent.py lines 132-150): with
\* configuration errors it returns False before connect(); otherwise
\* connect() runs "adb devices" and tells whether a device is attached.
InitializeEnds(r, connected) ==
  /\ tpos[r] = "initialize"
  /\ validate(config) # {} => ~connected
  /\ LET ok == validate(config) = {} /\ connected
         cmds == IF validate(config) = {} THEN 1 ELSE 0
     IN IF TestsInitialize(entry[r]) /\ ~ok
        THEN /\ tpos' = [tpos EXCEPT ![r] = "done"]
             /\ interactions' = interactions + cmds
             /\ UNCHANGED executeCalls
        ELSE /\ tpos' = [tpos EXCEPT ![r] = "execute"]
             /\ executeCalls' = executeCalls + 1
             /\ interactions' = interactions + cmds + 1
  /\ UNCHANGED <<config, _agent, entry, calls, coreVars, serverVars, channelVars, pureVars>>

\* execute() of caller r returns and the entry point with it.
ExecuteEnds(r) ==
  /\ tpos[r] = "execute"
  /\ tpos' = [tpos EXCEPT ![r] = "done"]
  /\ UNCHANGED <<config, _agent, entry, calls, executeCalls, interactions, coreVars, serverVars, channelVars, pureVars>>

EntryNext ==
  \/ \E r \in Callers, e \in Entries : EnterTask(r, e)
  \/ \E r \in Callers, connected \in BOOLEAN : InitializeEnds(r, connected)
  \/ \E r \in Callers : ExecuteEnds(r)

EntryInit ==
  /\ AgentNew(OneStepConfig)
  /\ MemoryNew(ContextMemorySize)
  /\ ClientNew
  /\ DeviceNew(NoSerial)
  /\ EmitterNew(NoBroadcast)
  /\ ServerNew
  /\ \E c \in Configs : ToolNew(c)
  /\ ParserNew(100, 50)
  /\ SchemaNew(NoRequest)
  /\ ChannelNew
  /\ UtilNew

EntrySpec == EntryInit /\ [][EntryNext]_vars

\* ------------------------------------------------------------------------
\* UITreeParser (utils/ui_parser.py) and the screen format of the agent
\* ------------------------------------------------------------------------
\* An element of a dump: the attributes of one XML node, in document order.
\* The root element <hierarchy> has none, so _parse_node reads the defaults.
Hierarchy ==
  [text |-> "", resource_id |-> "", class_name |-> "", content_desc |-> "",
   checkable |-> FALSE, clickable |-> FALSE, enabled |-> TRUE, scrollable |-> FALSE,
   bounds |-> <<0, 0, 0, 0>>]

\* Where a node is and whether it is enabled: three places that differ in
\* top or left, a disabled node, a node of area 25 (the smaller of the two
\* values of min_area).
Places ==
  {[bounds |-> <<0, 0, 100, 50>>, enabled |-> TRUE],
   [bounds |-> <<0, 100, 100, 150>>, enabled |-> TRUE],
   [bounds |-> <<100, 0, 200, 50>>, enabled |-> TRUE],
   [bounds |-> <<0, 0, 100, 50>>, enabled |-> FALSE],
   [bounds |-> <<0, 0, 5, 5>>, enabled |-> TRUE]}

\* The nodes of the dumps: every combination of the six properties the
\* parser ranks by, at every place.
Elements ==
  {[text |-> t, resource_id |-> r, class_name |-> "android.view.View", content_desc |-> d,
    checkable |-> k, clickable |-> c, enabled |-> pl.enabled, scrollable |-> sc,
    bounds |-> pl.bounds] :
     t \in {"", "X"}, r \in {"", "app:id/ok"}, d \in {"", "Menu"},
     k \in BOOLEAN, c \in BOOLEAN, sc \in BOOLEAN, pl \in Places}

\* The node of the example with each class name, the attribute absent included.
Classes == {"", "android.view.View", "android.widget.Button", "android.widget.TextView"}
Examples ==
  {[Hierarchy EXCEPT !.text = "X", !.clickable = TRUE, !.bounds = <<0, 0, 100, 50>>,
                     !.class_name = cls] : cls \in Classes}

\* The dumps one parser instance is used for in turn.
FewDumps ==
  LET few == {e \in Elements : /\ e.text = "X" /\ e.resource_id = "" /\ e.content_desc = ""
                               /\ ~e.checkable /\ ~e.scrollable
                               /\ e.bounds[1] = 0 /\ e.bounds[3] = 100}
  IN UNION {[1..n -> few] : n \in 0..MaxNodes} \cup {<<e>> : e \in Examples}

\* The keywords element_type looks for that occur in class_name.lower().
Words(cls) ==
  CASE cls = "android.widget.Button" -> {"button"}
    [] cls = "android.widget.TextView" -> {"text"}
    [] OTHER -> {}

\* The part of a name of the model after its last "/" or ".".
LastPart(name) ==
  CASE name = "app:id/ok" -> "ok"
    [] name = "android.view.View" -> "View"
    [] name = "android.widget.Button" -> "Button"
    [] name = "android.widget.TextView" -> "TextView"
    [] OTHER -> name

\* UINode.center (lines 40-44), also UIElement.center.
center(n) == <<(n.bounds[1] + n.bounds[3]) \div 2, (n.bounds[2] + n.bounds[4]) \div 2>>

\* UINode.area (lines 46-56).
area(n) == (n.bounds[3] - n.bounds[1]) * (n.bounds[4] - n.bounds[2])

\* UINode.display_name (lines 58-70), also UIElement.display_name; the
\* names of the model are shorter than the 20 and 30 characters kept.
display_name(n) ==
  IF n.text # "" THEN n.text
  ELSE IF n.content_desc # "" THEN n.content_desc
  ELSE IF n.resource_id # "" THEN LastPart(n.resource_id)
  ELSE LastPart(n.class_name)

\* UINode.element_type (lines 72-96).
element_type(n) ==
  LET w == Words(n.class_name)
  IN IF "button" \in w THEN "B"
     ELSE IF "edittext" \in w \/ "textfield" \in w THEN "I"
     ELSE IF "checkbox" \in w THEN "C"
     ELSE IF "switch" \in w \/ "toggle" \in w THEN "S"
     ELSE IF "image" \in w THEN "G"
     ELSE IF "text" \in w THEN "T"
     ELSE IF "list" \in w \/ "recycler" \in w THEN "L"
     ELSE IF "scroll" \in w THEN "R"
     ELSE IF n.clickable THEN "K"
     ELSE "E"

\* UINode.to_comptext (lines 98-101): the parts of
\* f"{index}:{element_type}:{display_name}@{cx},{cy}".
to_comptext(n) == <<n.index, element_type(n), display_name(n), center(n)[1], center(n)[2]>>

\* to_comptext_format(nodes) (lines 270-297), package and activity left
\* empty: the line "Els:", then one line for each node.
to_comptext_format(nodes) == <<<<"Els:">>>> \o [i \in 1..Len(nodes) |-> to_comptext(nodes[i])]

\* Variant: parse() leaves the counter where the previous call left it.
StartIndex_Kept(counter) == counter

\* self._index_counter = 0 (line 153).
StartIndex(counter) == 0

\* _parse_node from the root (lines 174-215): the root element and the
\* nodes below it in document order, each with the index the counter had;
\* pos is the place of the node in the dump (0 for the root).
_parse_node(counter, d) ==
  [nodes |-> [i \in 1..(Len(d) + 1) |->
                [text |-> (IF i = 1 THEN Hierarchy ELSE d[i - 1]).text,
                 resource_id |-> (IF i = 1 THEN Hierarchy ELSE d[i - 1]).resource_id,
                 class_name |-> (IF i = 1 THEN Hierarchy ELSE d[i - 1]).class_name,
                 content_desc |-> (IF i = 1 THEN Hierarchy ELSE d[i - 1]).content_desc,
                 checkable |-> (IF i = 1 THEN Hierarchy ELSE d[i - 1]).checkable,
                 clickable |-> (IF i = 1 THEN Hierarchy ELSE d[i - 1]).clickable,
                 enabled |-> (IF i = 1 THEN Hierarchy ELSE d[i - 1]).enabled,
                 scrollable |-> (IF i = 1 THEN Hierarchy ELSE d[i - 1]).scrollable,
                 bounds |-> (IF i = 1 THEN Hierarchy ELSE d[i - 1]).bounds,
                 index |-> counter + i - 1,
                 pos |-> i - 1]],
   counter |-> counter + Len(d) + 1]

\* Variant: the filter does not test node.enabled.
_filter_nodes_KeepsDisabled(nodes, min_area) ==
  LET Keep(n) == /\ area(n) >= min_area
                 /\ \/ n.text # "" \/ n.content_desc # "" \/ n.resource_id # ""
                    \/ n.clickable \/ n.scrollable \/ n.checkable
  IN SelectSeq(nodes, Keep)

\* _filter_nodes (lines 217-239).
_filter_nodes(nodes, min_area) ==
  LET Keep(n) == /\ n.enabled
                 /\ ~(area(n) < min_area)
                 /\ \/ n.text # "" \/ n.content_desc # "" \/ n.resource_id # ""
                    \/ n.clickable \/ n.scrollable \/ n.checkable
  IN SelectSeq(nodes, Keep)

\* relevance_score (lines 243-266): (-score, top, left).
relevance_score(n) ==
  <<0 - ((IF n.clickable THEN 100 ELSE 0) + (IF n.scrollable THEN 50 ELSE 0)
         + (IF n.checkable THEN 40 ELSE 0) + (IF n.text # "" THEN 30 ELSE 0)
         + (IF n.content_desc # "" THEN 20 ELSE 0) + (IF n.resource_id # "" THEN 10 ELSE 0)),
    n.bounds[2], n.bounds[1]>>

\* The order of Python on tuples of three integers.
Before(k1, k2) ==
  \/ k1[1] < k2[1]
  \/ k1[1] = k2[1] /\ k1[2] < k2[2]
  \/ k1[1] = k2[1] /\ k1[2] = k2[2] /\ k1[3] < k2[3]

\* sorted(nodes, key=relevance_score) (line 268): ascending in the key,
\* nodes of equal key in the order they had (the sort is stable).
_sort_by_relevance(nodes) ==
  LET n == Len(nodes)
      key(i) == relevance_score(nodes[i])
      rank(i) == Cardinality({j \in 1..n : \/ Before(key(j), key(i))
                                           \/ key(j) = key(i) /\ j < i})
  IN [r \in 1..n |-> nodes[CHOOSE i \in 1..n : rank(i) = r - 1]]

\* Variant: the cut keeps the last max_elements nodes.
Slice_Tail(nodes, max_elements) ==
  SubSeq(nodes, MaxOf({Len(nodes) - max_elements, 0}) + 1, Len(nodes))

\* sorted_nodes[:self.max_elements] (lines 169, 172), max_elements >= 0.
Slice(nodes, max_elements) == SubSeq(nodes, 1, MinOf({max_elements, Len(nodes)}))

\* parse(xml_content) (lines 143-172) of a well-formed dump d by the parser
\* prs: the list returned and the counter left behind.
parse(prs, d) ==
  LET walked == _parse_node(StartIndex(prs._index_counter), d)
      kept == Slice(_sort_by_relevance(_filter_nodes(walked.nodes, prs.min_area)),
                    prs.max_elements)
  IN [nodes |-> [i \in 1..Len(kept) |-> [kept[i] EXCEPT !.index = i - 1]],
      counter |-> walked.counter]

\* DroidRunWrapper._parse_ui_xml (droidrun_wrapper.py, lines 271-311): the
\* elements named "node" that have text, a description or are clickable.
_parse_ui_xml(d) ==
  LET Meaningful(e) == e.text # "" \/ e.content_desc # "" \/ e.clickable
  IN SelectSeq(d, Meaningful)

\* MobileAgent._format_screen_compact (mobile_agent.py, lines 289-302) of
\* a screen without package name: two header lines, then a line for each
\* of the first 15 elements.
_format_screen_compact(elements) ==
  <<<<"App:?">>, <<"Els:">>>>
  \o [i \in 1..MinOf({15, Len(elements)}) |->
        <<i - 1,
          IF elements[i].clickable THEN "B" ELSE IF elements[i].text # "" THEN "T" ELSE "E",
          display_name(elements[i]), center(elements[i])[1], center(elements[i])[2]>>]

\* parser.parse(d), then parser.to_comptext_format of what it returned.
Parse(d) ==
  /\ parses < MaxParses
  /\ parses' = parses + 1
  /\ dump' = d
  /\ parsed' = parse(parser, d).nodes
  /\ parser' = [parser EXCEPT !._index_counter = parse(parser, d).counter]
  /\ encoded' = to_comptext_format(parse(parser, d).nodes)
  /\ first' = IF parses = 0 THEN d ELSE first
  /\ firstEncoded' = IF parses = 0 THEN encoded' ELSE firstEncoded
  /\ others' = IF parses > 0 /\ d # first THEN others + 1 ELSE others
  /\ compact' = <<>>
  /\ UNCHANGED <<coreVars, serverVars, channelVars, toolVars, schemaVars, utilVars>>

\* The agent formats the screen of the same dump for the model
\* (get_screen_state, then _format_screen_compact).
FormatScreen ==
  /\ parses > 0
  /\ compact = <<>>
  /\ compact' = _format_screen_compact(_parse_ui_xml(dump))
  /\ UNCHANGED <<parser, dump, parsed, encoded, parses, first, firstEncoded, others,
                 coreVars, serverVars, channelVars, toolVars, schemaVars, utilVars>>

\* One call of parse() on a new parser, for every dump.
ParserNext ==
  /\ parses = 0
  /\ \E n \in 0..MaxNodes : \E d \in [1..n -> Elements] \cup {<<e>> : e \in Examples} : Parse(d)

ParserInit ==
  /\ AgentNew(OneStepConfig)
  /\ MemoryNew(ContextMemorySize)
  /\ ClientNew
  /\ DeviceNew(NoSerial)
  /\ EmitterNew(NoBroadcast)
  /\ ServerNew
  /\ ToolNew(DefaultConfig)
  /\ \E min_area \in {25, 100}, max_elements \in 1..MaxNodes : ParserNew(min_area, max_elements)
  /\ SchemaNew(NoRequest)
  /\ ChannelNew
  /\ UtilNew

ParserSpec == ParserInit /\ [][ParserNext]_vars

\* One parser used for several dumps in turn, and the screen format of
\* the agent for each.
ReuseNext ==
  \/ \E d \in FewDumps : Parse(d)
  \/ FormatScreen

ReuseSpec == ParserInit /\ [][ReuseNext]_vars

\* ------------------------------------------------------------------------
\* MobileActionSchema (schemas/mobile_schema.py)
\* ------------------------------------------------------------------------
\* ActionType (lines 64-74).
ActionType == {"tap", "swipe", "type", "back", "home", "launch", "wait", "done"}

\* Parameter names: two long names of key_map, their short forms, which
\* the grammar of the DSL uses as parameter names, and a name not in key_map.
ParamKeys == {"element_index", "ei", "seconds", "s", "x"}

\* dict[str, Any] with up to MaxParams entries: pairs of distinct keys.
ParamDicts ==
  UNION {{ps \in [1..n -> ParamKeys \X {0, 1}] :
            \A i, j \in 1..n : ps[i][1] = ps[j][1] => i = j} : n \in 0..MaxParams}

\* A thought of five characters and one of 51.
Thoughts == {[i \in 1..5 |-> "a"], [i \in 1..51 |-> "a"]}

\* The requests encoded.
ActionRequests ==
  [thought : Thoughts, action : ActionType, params : ParamDicts, confidence : {950, 954}]

\* {key: value for key, value in pairs}: a key keeps the place of its
\* first occurrence and gets the value of its last.
DictOf(pairs) ==
  LET n == Len(pairs)
      IsFirst(i) == \A j \in 1..(i - 1) : pairs[j][1] # pairs[i][1]
      LastValue(k) ==
        pairs[CHOOSE i \in 1..n : pairs[i][1] = k /\ \A j \in (i + 1)..n : pairs[j][1] # k][2]
      firsts == SelectSeq([i \in 1..n |-> i], IsFirst)
  IN [r \in 1..Len(firsts) |-> <<pairs[firsts[r]][1], LastValue(pairs[firsts[r]][1])>>]

\* d.get(key, default) of a dict.
DictGet(d, key, default) ==
  IF \E i \in 1..Len(d) : d[i][1] = key
  THEN d[CHOOSE i \in 1..Len(d) : d[i][1] = key][2]
  ELSE default

\* key_map.get(k, k) of _compress_params (lines 151-157).
Compress(k) ==
  CASE k = "element_index" -> "ei"
    [] k = "text" -> "txt"
    [] k = "package" -> "pkg"
    [] k = "direction" -> "d"
    [] k = "seconds" -> "s"
    [] OTHER -> k

\* key_map.get(k, k) of from_comptext (lines 163-169).
Expand(k) ==
  CASE k = "ei" -> "element_index"
    [] k = "txt" -> "text"
    [] k = "pkg" -> "package"
    [] k = "d" -> "direction"
    [] k = "s" -> "seconds"
    [] OTHER -> k

\* _compress_params (lines 149-158).
_compress_params(params) ==
  DictOf([i \in 1..Len(params) |-> <<Compress(params[i][1]), params[i][2]>>])

\* round(confidence, 2) of a confidence in thousandths (none of the
\* values of the model lies halfway).
round2(c) == ((c + 5) \div 10) * 10

\* to_comptext (lines 121-133): the members of the JSON object written.
action_to_comptext(req) ==
  <<<<"t", SubSeq(req.thought, 1, MinOf({50, Len(req.thought)}))>>,
    <<"a", req.action>>,
    <<"p", _compress_params(req.params)>>,
    <<"c", round2(req.confidence)>>>>

\* json.loads of the text: the dict of its members, the object "p" too.
loads(members) ==
  DictOf([i \in 1..Len(members) |->
            IF members[i][1] = "p" THEN <<"p", DictOf(members[i][2])>> ELSE members[i]])

\* from_comptext(data) (lines 160-176).
from_comptext(data) ==
  [thought |-> DictGet(data, "t", <<>>),
   action |-> DictGet(data, "a", "done"),
   params |-> DictOf([i \in 1..Len(DictGet(data, "p", <<>>)) |->
                        <<Expand(DictGet(data, "p", <<>>)[i][1]), DictGet(data, "p", <<>>)[i][2]>>]),
   confidence |-> DictGet(data, "c", 0)]

\* request.to_comptext()
Encode ==
  /\ wire = <<>>
  /\ wire' = action_to_comptext(request)
  /\ UNCHANGED <<request, decoded, coreVars, serverVars, channelVars, toolVars, parserVars, utilVars>>

\* MobileActionSchema.from_comptext(json.loads(text))
Decode ==
  /\ wire # <<>>
  /\ decoded = NotDecoded
  /\ decoded' = from_comptext(loads(wire))
  /\ UNCHANGED <<request, wire, coreVars, serverVars, channelVars, toolVars, parserVars, utilVars>>

SchemaNext ==
  \/ Encode
  \/ Decode

SchemaInit ==
  /\ AgentNew(OneStepConfig)
  /\ MemoryNew(ContextMemorySize)
  /\ ClientNew
  /\ DeviceNew(NoSerial)
  /\ EmitterNew(NoBroadcast)
  /\ ServerNew
  /\ ToolNew(DefaultConfig)
  /\ ParserNew(100, 50)
  /\ \E req \in ActionRequests : SchemaNew(req)
  /\ ChannelNew
  /\ UtilNew

SchemaSpec == SchemaInit /\ [][SchemaNext]_vars

\* ------------------------------------------------------------------------
\* MobileAgentWebSocketServer: messages and agent tasks (websocket_server.py)
\* ------------------------------------------------------------------------
\* A message of a client: text that is no JSON, JSON that is no object, or
\* an object with the members command and task ("None" when absent).
NotJson == [json |-> "invalid", command |-> "None", task |-> "None"]
NotAnObject == [json |-> "other", command |-> "None", task |-> "None"]
MessageCommands == {"None", "run", "stop", "screenshot", "status", "config", "dance"}
TaskTexts == {"None", "", "open settings"}
Messages ==
  {NotJson, NotAnObject}
  \cup {[json |-> "object", command |-> c, task |-> t] : c \in MessageCommands, t \in TaskTexts}

\* self._current_task and not self._current_task.done() (lines 407, 433).
TaskRunning_UntilCancelled(t, jb, cancelled) == t # NoTask /\ jb[t] # "done" /\ t \notin cancelled
TaskRunning(t, jb, cancelled) == t # NoTask /\ jb[t] # "done"

\* _send_error (lines 493-498): an error event for one client.
_send_error_ToAll(c, clients, text) == [type |-> "error", to |-> clients, text |-> text]
_send_error(c, clients, text) == [type |-> "error", to |-> {c}, text |-> text]

\* _send_to_client (lines 500-505): an event for one client.
_send_to_client(c, type) == [type |-> type, to |-> {c}, text |-> ""]

\* _broadcast (lines 507-516): an event for every client connected.
BroadcastTo(clients, type, text) == [type |-> type, to |-> clients, text |-> text]

\* _run_task (lines 431-453): what it sends and whether it creates a task.
_run_task(clients, running) ==
  IF running
  THEN [reply |-> BroadcastTo(clients, "error", "Another task is already running"),
        effect |-> "none"]
  ELSE [reply |-> NoReply, effect |-> "create"]

\* _handle_message (lines 393-429): what it sends and what it does to the
\* task, for the message m of client c; connected is what device.connect()
\* gives the screenshot command.
_handle_message(c, m, clients, running, connected) ==
  IF m.json = "invalid"
  THEN [reply |-> _send_error(c, clients, "Invalid JSON message"), effect |-> "none"]
  ELSE IF m.json = "other"
  THEN [reply |-> _send_error(c, clients, "AttributeError"), effect |-> "none"]
  ELSE CASE m.command = "run" ->
              IF m.task \notin {"None", ""}
              THEN _run_task(clients, running)
              ELSE [reply |-> _send_error(c, clients, "Missing 'task' parameter"),
                    effect |-> "none"]
         [] m.command = "stop" ->
              IF running
              THEN [reply |-> BroadcastTo(clients, "task_failed", "Task cancelled by user"),
                    effect |-> "cancel"]
              ELSE [reply |-> NoReply, effect |-> "none"]
         [] m.command = "screenshot" ->
              [reply |-> IF connected THEN BroadcastTo(clients, "screen_updated", "")
                         ELSE NoReply,
               effect |-> "none"]
         [] m.command = "status" ->
              [reply |-> _send_to_client(c, "progress_update"), effect |-> "none"]
         [] m.command = "config" ->
              [reply |-> _send_to_client(c, "connected"), effect |-> "none"]
         [] OTHER ->
              [reply |-> _send_error(c, clients, "Unknown command"), effect |-> "none"]

\* The task asyncio.create_task makes next.
NewTask == CHOOSE t \in TaskIds : job[t] = "none" /\ \A u \in TaskIds : job[u] = "none" => t <= u

\* _handler receives the message m of client c and awaits _handle_message
\* for it.  A failed send is logged by _send_to_client and by gather, so
\* the call returns and the loop of _handler goes on to the next message.
HandleMessage(c, m, connected) ==
  /\ c \in _clients
  /\ handled < MaxMessages
  /\ LET h == _handle_message(c, m, _clients,
                              TaskRunning(_current_task, job, cancelling), connected)
     IN /\ h.effect = "create" => \E t \in TaskIds : job[t] = "none"
        /\ reply' = h.reply
        /\ last' = [sender |-> c, message |-> m]
        /\ handled' = handled + 1
        /\ CASE h.effect = "create" ->
                  /\ _current_task' = NewTask
                  /\ job' = [job EXCEPT ![NewTask] = "created"]
                  /\ UNCHANGED <<cancelling, stopped, terminal>>
             [] h.effect = "cancel" ->
                  /\ cancelling' = cancelling \cup {_current_task}
                  /\ stopped' = stopped \cup {_current_task}
                  /\ terminal' = [terminal EXCEPT ![_current_task] = @ + 1]
                  /\ UNCHANGED <<_current_task, job>>
             [] OTHER -> UNCHANGED <<_current_task, job, cancelling, stopped, terminal>>
  /\ UNCHANGED <<serverVars, coreVars, toolVars, pureVars>>

\* The task t runs for the first time: a task cancelled before that never
\* enters execute(); otherwise it creates the agent and awaits
\* agent.initialize() (line 443).
TaskStarts(t) ==
  /\ job[t] = "created"
  /\ job' = [job EXCEPT ![t] = IF t \in cancelling THEN "done" ELSE "initialize"]
  /\ cancelling' = cancelling \ {t}
  /\ UNCHANGED <<_current_task, stopped, terminal, handled, last, reply,
                 serverVars, coreVars, toolVars, pureVars>>

\* agent.initialize() ends.  CancelledError, raised at the await of a
\* cancelled task, leaves through __aexit__; a failed initialization is
\* broadcast as an error and execute() returns through __aexit__ (lines
\* 443-448); otherwise agent.execute(task) is awaited.
TaskInitialized(t, ok) ==
  /\ job[t] = "initialize"
  /\ job' = [job EXCEPT ![t] = IF t \notin cancelling /\ ok THEN "execute" ELSE "exit"]
  /\ cancelling' = cancelling \ {t}
  /\ UNCHANGED <<_current_task, stopped, terminal, handled, last, reply,
                 serverVars, coreVars, toolVars, pureVars>>

\* What WebSocketMobileAgent.execute (lines 109-145) emits at its end:
\* task_completed or task_failed for a result, an error event for an
\* exception; CancelledError is no Exception and passes without an event.
Outcomes == {"success", "failure", "raised"}
TerminalEvents(cancelled, outcome) ==
  IF ~cancelled /\ outcome \in {"success", "failure"} THEN 1 ELSE 0

\* agent.execute(task) ends, and __aexit__ awaits the close of the model
\* client.
TaskExecuted(t, outcome) ==
  /\ job[t] = "execute"
  /\ job' = [job EXCEPT ![t] = "exit"]
  /\ terminal' = [terminal EXCEPT ![t] = @ + TerminalEvents(t \in cancelling, outcome)]
  /\ cancelling' = cancelling \ {t}
  /\ UNCHANGED <<_current_task, stopped, handled, last, reply,
                 serverVars, coreVars, toolVars, pureVars>>

\* __aexit__ ends, or is left by CancelledError: the task is done.
TaskExits(t) ==
  /\ job[t] = "exit"
  /\ job' = [job EXCEPT ![t] = "done"]
  /\ cancelling' = cancelling \ {t}
  /\ UNCHANGED <<_current_task, stopped, terminal, handled, last, reply,
                 serverVars, coreVars, toolVars, pureVars>>

ChannelNext ==
  \/ \E c \in Clients : Register(c)
  \/ \E c \in Clients : Unregister(c)
  \/ \E c \in Clients, m \in Messages, connected \in BOOLEAN : HandleMessage(c, m, connected)
  \/ \E t \in TaskIds : TaskStarts(t)
  \/ \E t \in TaskIds, ok \in BOOLEAN : TaskInitialized(t, ok)
  \/ \E t \in TaskIds, outcome \in Outcomes : TaskExecuted(t, outcome)
  \/ \E t \in TaskIds : TaskExits(t)

ChannelSpec == ServerInit /\ [][ChannelNext]_vars

\* ------------------------------------------------------------------------
\* Dispatch of a tap by element index (mobile_agent.py, _execute_action)
\* ------------------------------------------------------------------------
\* The UIElement at place i of a screen: a button 100 wide and 50 high,
\* the i-th in a row.
ElementAt(i) ==
  [Hierarchy EXCEPT !.text = "X", !.clickable = TRUE,
                    !.bounds = <<100 * i, 0, 100 * i + 100, 50>>]

\* The ScreenState of a list of elements as _execute_action reads it: each
\* element by its center.
ScreenState(els) ==
  [valid |-> TRUE,
   elements |-> [i \in 1..Len(els) |-> [x |-> center(els[i])[1], y |-> center(els[i])[2]]]]

\* The decoded action {"action": "tap", "params": {key: i}}.
TapAction(key, i) ==
  Obj([action |-> Str("tap")], [params |-> [k \in {key} |-> Num(i)]])

\* get_screen_state returns a screen of n elements, which is formatted for
\* the model.
ScreenShown(n) ==
  /\ latest' = [i \in 1..n |-> ElementAt(i - 1)]
  /\ asked' = NoParams
  /\ tapped' = NoCall
  /\ UNCHANGED <<coreVars, serverVars, channelVars, toolVars, parserVars, schemaVars,
                 reductionVars, shotVars, metricsVars>>

\* The model answers with a tap on element i, named by key, and
\* _execute_action dispatches it on the latest screen read.
DispatchTap(key, i) ==
  /\ asked' = [key |-> key, index |-> i]
  /\ tapped' = _execute_action(TapAction(key, i), ScreenState(latest))
  /\ UNCHANGED <<latest, coreVars, serverVars, channelVars, toolVars, parserVars, schemaVars,
                 reductionVars, shotVars, metricsVars>>

DispatchNext ==
  \/ \E n \in 0..MaxScreenElements : ScreenShown(n)
  \/ \E key \in {"element_index", "ei"}, i \in -1..(MaxScreenElements + 1) : DispatchTap(key, i)

DispatchSpec == ServerInit /\ [][DispatchNext]_vars

\* ------------------------------------------------------------------------
\* calculate_token_reduction (schemas/mobile_schema.py)
\* ------------------------------------------------------------------------
\* round(n / d, 0) for d > 0 as Python rounds a float that is exact: to the
\* nearest integer, a tie to the even one.  The ties among the quotients of
\* the model are multiples of 6.25 percent, which are exact as floats.
RoundHalfEven(n, d) ==
  LET q == n \div d
      r == n - q * d
  IN IF 2 * r < d THEN q
     ELSE IF 2 * r > d THEN q + 1
     ELSE IF q % 2 = 0 THEN q ELSE q + 1

\* calculate_token_reduction(verbose, comptext) for texts of lv and lc
\* characters (lines 263-281).  The token counts len / 4 are fractions, so
\* that their ratio is the ratio of the lengths; reduction_percent is kept
\* in tenths of a percent.
calculate_token_reduction_Truncated(lv, lc) ==
  IF lv \div 4 = 0 THEN [outcome |-> "ZeroDivisionError"]
  ELSE [outcome |-> "returned",
        verbose_chars |-> lv,
        comptext_chars |-> lc,
        verbose_tokens_est |-> lv \div 4,
        comptext_tokens_est |-> lc \div 4,
        reduction_percent |->
          RoundHalfEven(((lv \div 4) - (lc \div 4)) * 1000, lv \div 4)]
calculate_token_reduction(lv, lc) ==
  IF lv = 0 THEN [outcome |-> "ZeroDivisionError"]
  ELSE [outcome |-> "returned",
        verbose_chars |-> lv,
        comptext_chars |-> lc,
        verbose_tokens_est |-> lv \div 4,
        comptext_tokens_est |-> lc \div 4,
        reduction_percent |-> RoundHalfEven((lv - lc) * 1000, lv)]

\* The lengths of the texts compared: short texts, and those of the example.
TextPairs ==
  [verbose : 0..MaxTextLen, comptext : 0..MaxTextLen]
  \cup {[verbose |-> 4000, comptext |-> 400]}

\* The function is called for the two texts.
Estimate ==
  /\ estimate = NotEstimated
  /\ estimate' = calculate_token_reduction(texts.verbose, texts.comptext)
  /\ UNCHANGED <<texts, coreVars, serverVars, channelVars, toolVars, parserVars, schemaVars,
                 dispatchVars, shotVars, metricsVars>>

ReductionInit ==
  /\ AgentNew(OneStepConfig)
  /\ MemoryNew(ContextMemorySize)
  /\ ClientNew
  /\ DeviceNew(NoSerial)
  /\ EmitterNew(NoBroadcast)
  /\ ServerNew
  /\ ChannelNew
  /\ ToolNew(DefaultConfig)
  /\ ParserNew(100, 50)
  /\ SchemaNew(NoRequest)
  /\ DispatchNew
  /\ PipelineNew(MaxHistory)
  /\ CollectorNew
  /\ \E t \in TextPairs : ReductionNew(t)

ReductionSpec == ReductionInit /\ [][Estimate]_vars

\* ------------------------------------------------------------------------
\* ScreenshotPipeline (utils/screenshot.py)
\* ------------------------------------------------------------------------
\* The while loop of _add_to_history: pop(0) until the list fits.
RECURSIVE PopFirst(_, _)
PopFirst(h, max) == IF Len(h) > max THEN PopFirst(Tail(h), max) ELSE h

RECURSIVE PopLast(_, _)
PopLast(h, max) == IF Len(h) > max THEN PopLast(SubSeq(h, 1, Len(h) - 1), max) ELSE h

\* _add_to_history(result) (lines 264-275).
_add_to_history_PopLast(p, r) == [p EXCEPT !._history = PopLast(Append(@, r), p.max_history)]
_add_to_history(p, r) == [p EXCEPT !._history = PopFirst(Append(@, r), p.max_history)]

\* The calls of capture() are numbered as they are made.
NextCapture ==
  CHOOSE c \in CaptureIds : capture[c] = "none" /\ \A d \in CaptureIds : capture[d] = "none" => c <= d

\* capture() is called: it takes the timestamp and awaits screencap on the
\* device (lines 72-109).
CaptureStarts ==
  /\ \E c \in CaptureIds : capture[c] = "none"
  /\ capture' = [capture EXCEPT ![NextCapture] = "screencap"]
  /\ UNCHANGED <<pipeline, succeeded, coreVars, serverVars, channelVars, toolVars, parserVars,
                 schemaVars, dispatchVars, reductionVars, metricsVars>>

\* screencap ends: with a return code other than 0 capture() returns a
\* failed result (lines 111-116), otherwise it awaits adb pull.
ScreencapEnds(c, ok) ==
  /\ capture[c] = "screencap"
  /\ capture' = [capture EXCEPT ![c] = IF ok THEN "pull" ELSE "failed"]
  /\ UNCHANGED <<pipeline, succeeded, coreVars, serverVars, channelVars, toolVars, parserVars,
                 schemaVars, dispatchVars, reductionVars, metricsVars>>

\* adb pull ends: with a return code other than 0 capture() returns a
\* failed result (lines 129-134), otherwise it removes the file on the
\* device and reads the dimensions of the image.
PullEnds(c, ok) ==
  /\ capture[c] = "pull"
  /\ capture' = [capture EXCEPT ![c] = IF ok THEN "finish" ELSE "failed"]
  /\ UNCHANGED <<pipeline, succeeded, coreVars, serverVars, channelVars, toolVars, parserVars,
                 schemaVars, dispatchVars, reductionVars, metricsVars>>

\* The rest of capture() (lines 136-177): an exception gives a failed
\* result, otherwise the result is added to the history and returned.
CaptureEnds(c, raised) ==
  /\ capture[c] = "finish"
  /\ capture' = [capture EXCEPT ![c] = IF raised THEN "failed" ELSE "succeeded"]
  /\ pipeline' = IF raised THEN pipeline ELSE _add_to_history(pipeline, c)
  /\ succeeded' = IF raised THEN succeeded ELSE Append(succeeded, c)
  /\ UNCHANGED <<coreVars, serverVars, channelVars, toolVars, parserVars,
                 schemaVars, dispatchVars, reductionVars, metricsVars>>

PipelineNext ==
  \/ CaptureStarts
  \/ \E c \in CaptureIds, ok \in BOOLEAN : ScreencapEnds(c, ok)
  \/ \E c \in CaptureIds, ok \in BOOLEAN : PullEnds(c, ok)
  \/ \E c \in CaptureIds, raised \in BOOLEAN : CaptureEnds(c, raised)

PipelineInit ==
  /\ AgentNew(OneStepConfig)
  /\ MemoryNew(ContextMemorySize)
  /\ ClientNew
  /\ DeviceNew(NoSerial)
  /\ EmitterNew(NoBroadcast)
  /\ ServerNew
  /\ ChannelNew
  /\ ToolNew(DefaultConfig)
  /\ ParserNew(100, 50)
  /\ SchemaNew(NoRequest)
  /\ DispatchNew
  /\ ReductionNew([verbose |-> 0, comptext |-> 0])
  /\ CollectorNew
  /\ \E max \in 0..MaxHistory : PipelineNew(max)

PipelineSpec == PipelineInit /\ [][PipelineNext]_vars

\* ------------------------------------------------------------------------
\* TokenMetricsCollector (utils/metrics.py)
\* ------------------------------------------------------------------------
\* sum() of a list of numbers.
RECURSIVE SumSeq(_)
SumSeq(q) == IF q = <<>> THEN 0 ELSE Head(q) + SumSeq(Tail(q))

\* start_task (lines 95-104): the new TaskMetrics replaces the current one.
start_task(c) == [c EXCEPT !._current_task = TaskMetrics]

\* record_step (lines 106-134); baseline 0 stands for None as well.
record_step(c, prompt, completion, duration, success, baseline) ==
  IF c._current_task.none THEN c
  ELSE LET t == c._current_task
       IN [c EXCEPT !._current_task =
             [t EXCEPT !.prompt_tokens = @ + prompt,
                       !.completion_tokens = @ + completion,
                       !.total_tokens = @ + prompt + completion,
                       !.steps_count = @ + 1,
                       !.successful_steps = IF success THEN @ + 1 ELSE @,
                       !.failed_steps = IF success THEN @ ELSE @ + 1,
                       !.total_duration_ms = @ + duration,
                       !.baseline_tokens = IF baseline # 0 THEN @ + baseline ELSE @,
                       !.comptext_tokens = IF baseline # 0 THEN @ + prompt ELSE @]]

\* _calculate_cost (lines 205-210) for the default model: 0.50 dollars for
\* a million prompt tokens, 1.50 for a million completion tokens.
_calculate_cost(prompt, completion) == prompt + 3 * completion

\* complete_task (lines 136-164).
complete_task(c, success) ==
  IF c._current_task.none THEN c
  ELSE LET t == c._current_task
           done == [t EXCEPT
                      !.success = success,
                      !.avg_step_duration_ms =
                         IF t.steps_count > 0 THEN Ratio(t.total_duration_ms, t.steps_count)
                         ELSE @,
                      !.token_reduction_percent =
                         IF t.baseline_tokens > 0
                         THEN Ratio((t.baseline_tokens - t.comptext_tokens) * 100,
                                    t.baseline_tokens)
                         ELSE @,
                      !.estimated_cost_usd =
                         _calculate_cost(t.prompt_tokens, t.completion_tokens)]
       IN [tasks |-> Append(c.tasks, done), _current_task |-> NoMetrics]

\* The body of get_performance_metrics (lines 166-203) for the list ts.
Aggregate(ts) ==
  IF ts = <<>> THEN PerformanceMetrics
  ELSE LET Of(f) == SumSeq(f)
           total_tasks == Len(ts)
           successful_tasks == Cardinality({i \in 1..Len(ts) : ts[i].success})
           total_duration_ms == Of([i \in 1..Len(ts) |-> ts[i].total_duration_ms])
           total_steps == Of([i \in 1..Len(ts) |-> ts[i].steps_count])
           successful_steps == Of([i \in 1..Len(ts) |-> ts[i].successful_steps])
           total_baseline == Of([i \in 1..Len(ts) |-> ts[i].baseline_tokens])
           total_comptext == Of([i \in 1..Len(ts) |-> ts[i].comptext_tokens])
           total_cost == Of([i \in 1..Len(ts) |-> ts[i].estimated_cost_usd])
       IN [total_tasks |-> total_tasks,
           successful_tasks |-> successful_tasks,
           failed_tasks |-> Cardinality({i \in 1..Len(ts) : ~ts[i].success}),
           total_tokens |-> Of([i \in 1..Len(ts) |-> ts[i].total_tokens]),
           total_prompt_tokens |-> Of([i \in 1..Len(ts) |-> ts[i].prompt_tokens]),
           total_completion_tokens |-> Of([i \in 1..Len(ts) |-> ts[i].completion_tokens]),
           total_baseline_tokens |-> total_baseline,
           total_comptext_tokens |-> total_comptext,
           avg_token_reduction_percent |->
             IF total_baseline > 0
             THEN Ratio((total_baseline - total_comptext) * 100, total_baseline) ELSE Zero,
           total_duration_ms |-> total_duration_ms,
           avg_task_duration_ms |-> Ratio(total_duration_ms, total_tasks),
           avg_step_duration_ms |->
             IF total_steps > 0 THEN Ratio(total_duration_ms, total_steps) ELSE Zero,
           total_steps |-> total_steps,
           successful_steps |-> successful_steps,
           total_cost_usd |-> total_cost,
           avg_cost_per_task_usd |-> Ratio(total_cost, total_tasks),
           task_success_rate |-> Ratio(successful_tasks * 100, total_tasks),
           step_success_rate |->
             IF total_steps > 0 THEN Ratio(successful_steps * 100, total_steps) ELSE Zero]

\* get_performance_metrics (lines 166-203): computed from self.tasks.
get_performance_metrics_WithCurrent(c) ==
  Aggregate(IF c._current_task.none THEN c.tasks ELSE Append(c.tasks, c._current_task))
get_performance_metrics(c) == Aggregate(c.tasks)

StartTask ==
  /\ mcalls < MaxMetricCalls
  /\ collector' = start_task(collector)
  /\ mop' = "start_task"
  /\ mcalls' = mcalls + 1
  /\ UNCHANGED <<report, completions, coreVars, serverVars, channelVars, toolVars, parserVars,
                 schemaVars, dispatchVars, reductionVars, shotVars>>

RecordStep(prompt, completion, duration, success, baseline) ==
  /\ mcalls < MaxMetricCalls
  /\ collector' = record_step(collector, prompt, completion, duration, success, baseline)
  /\ mop' = "record_step"
  /\ mcalls' = mcalls + 1
  /\ UNCHANGED <<report, completions, coreVars, serverVars, channelVars, toolVars, parserVars,
                 schemaVars, dispatchVars, reductionVars, shotVars>>

CompleteTask(success) ==
  /\ mcalls < MaxMetricCalls
  /\ collector' = complete_task(collector, success)
  /\ completions' = IF collector._current_task.none THEN completions ELSE completions + 1
  /\ mop' = "complete_task"
  /\ mcalls' = mcalls + 1
  /\ UNCHANGED <<report, coreVars, serverVars, channelVars, toolVars, parserVars,
                 schemaVars, dispatchVars, reductionVars, shotVars>>

GetMetrics ==
  /\ mcalls < MaxMetricCalls
  /\ report' = get_performance_metrics(collector)
  /\ mop' = "get_performance_metrics"
  /\ mcalls' = mcalls + 1
  /\ UNCHANGED <<collector, completions, coreVars, serverVars, channelVars, toolVars,
                 parserVars, schemaVars, dispatchVars, reductionVars, shotVars>>

MetricsNext ==
  \/ StartTask
  \/ \E prompt \in {1, 2}, success \in BOOLEAN, baseline \in {0, 5} :
       RecordStep(prompt, 1, 10, success, baseline)
  \/ \E success \in BOOLEAN : CompleteTask(success)
  \/ GetMetrics

MetricsSpec == ServerInit /\ [][MetricsNext]_vars

\* ------------------------------------------------------------------------
\* Properties
\* ------------------------------------------------------------------------
Running == pc \in {"read0", "chat", "exec", "verify"}
Returned == pc = "returned"
LastStep == result.steps[Len(result.steps)]

\* C1: execute(task) never raises to its caller: whatever exception the
\* model client, the decoder or the dispatcher raise inside the loop, the
\* invocation ends by returning the AgentResult.
C1_ExecuteNeverRaises == pc # "raised"

\* A transport error that outlived every retry was turned into a returned
\* result.
C1_Witness ==
  /\ Returned
  /\ result.error = "HTTPError"
  /\ cfg.max_retries >= 1
  /\ attempt = cfg.max_retries

\* C2: if every model call and device command eventually returns or raises,
\* every invocation of execute() eventually returns, and it makes at most
\* max_steps calls of chat() and at most max_steps device operations.
C2_TerminatesWithinBudget ==
  /\ [](modelCalls <= cfg.max_steps /\ deviceActions <= cfg.max_steps)
  /\ (Running ~> Returned)

\* An invocation that used its whole budget of model calls and device
\* operations has returned.
C2_Witness ==
  /\ Returned
  /\ cfg.max_steps >= 2
  /\ modelCalls = cfg.max_steps
  /\ deviceActions = cfg.max_steps

\* C3: when execute() has returned the state is Completed or Failed;
\* success holds exactly in state Completed, then without an error; without
\* success the state is Failed and the error is set (not None).
C3_ReturnedStateAndError ==
  Returned =>
    /\ state \in {"completed", "failed"}
    /\ result.success <=> state = "completed"
    /\ result.success => result.error = NoError
    /\ ~result.success => state = "failed" /\ result.error # NoError

\* A second invocation on the same agent completed after at least one
\* dispatched action.
C3_Witness ==
  /\ Returned
  /\ tasks = 2
  /\ result.success
  /\ Len(result.steps) >= 2

\* C4 (as claimed): on every exit path the returned AgentResult has
\* final_screen set to a ScreenState and total_duration_ms set to the time
\* the invocation took.
C4_FinalScreenAndDuration ==
  Returned =>
    /\ result.final_screen.valid
    /\ result.total_duration_ms = now - start_time

\* C5 (as claimed): a failed ActionResult ends the task with the
\* "Action failed" error only when the retry budget is exhausted, that is
\* when more than retry_attempts actions have failed in this task.
C5_FailureEndsOnlyWhenBudgetExhausted ==
  (Returned /\ result.error = ActionFailedError /\ call.kind = "device") =>
    failures > cfg.retry_attempts

\* C6 (as claimed): undecodable responses do not count against the retry
\* budget.  The failure that ended this task occurred at loop index
\* step_num after skips undecodable responses; the run with the same action
\* outcomes and without those responses meets the same failure at index
\* step_num - skips, and must end there too.
C6_SkipsDoNotChangeRetryDecision ==
  (Returned /\ result.error = ActionFailedError) =>
    ~(step_num - skips < cfg.retry_attempts)

\* Every response received in this invocation was text that names no action.
AllUndecodable == unparsed = modelCalls - (IF pc = "chat" THEN 1 ELSE 0)

\* C7: with a model whose every response is undecodable, execute() makes at
\* most max_steps model calls, calls no device operation, records no step,
\* does not raise, and returns a failed result with the max-steps error.
C7_AllUndecodableExhaustsBudget ==
  AllUndecodable =>
    /\ modelCalls <= cfg.max_steps
    /\ deviceActions = 0
    /\ result.steps = <<>>
    /\ pc \notin {"raised", "exec", "verify"}
    /\ (Returned /\ modelCalls > 0) =>
         /\ ~result.success
         /\ state = "failed"
         /\ result.error = MaxStepsError

\* Three undecodable responses used up max_steps = 3.
C7_Witness ==
  /\ Returned
  /\ cfg.max_steps = 3
  /\ modelCalls = 3
  /\ unparsed = 3

\* C8 (as claimed): when the response of the first step is {"a":"done"},
\* execute() returns success with exactly one step and no device operation.
C8_CompactDoneCompletesFirstStep ==
  (step_num = 0 /\ response = CompactDone) =>
    /\ Returned
    /\ result.success
    /\ Len(result.steps) = 1
    /\ deviceActions = 0

\* The action of the last response received is done.
DoneDecoded ==
  /\ pc \notin {"idle", "read0"}
  /\ response # NoResponse
  /\ ~response.null
  /\ Get(_parse_action(response.content).d, "action", NoneVal) = Str("done")

\* C9: when the action decoded in a step is done, no device operation is
\* called for that step (each earlier step called at most one), a step with
\* a successful result is the last of steps, the state is Completed, and
\* the invocation has returned without a further model call.
C9_DoneCompletes ==
  DoneDecoded =>
    /\ Returned
    /\ state = "completed"
    /\ result.success
    /\ result.steps # <<>>
    /\ LastStep.success
    /\ LastStep.action = Str("done")
    /\ LastStep.step_number = step_num + 1
    /\ deviceActions <= Len(result.steps) - 1
    /\ modelCalls = step_num + 1

\* done was decoded in the third step, after two dispatched actions.
C9_Witness ==
  /\ DoneDecoded
  /\ Returned
  /\ Len(result.steps) = 3
  /\ deviceActions = 2

\* C10 (as claimed): a response in the format of SYSTEM_PROMPT with action
\* tap and params {"element_index": 0} is decoded to an action with that
\* action and those params, and the tap of element 0 is dispatched.
C10_NestedParamsDecoded ==
  (pc = "exec" /\ response = PromptTap) =>
    /\ Get(action_data.d, "action", NoneVal) = Str("tap")
    /\ "params" \in DOMAIN action_data.d.sub
    /\ action_data.d.sub["params"] = [element_index |-> Num(0)]
    /\ Len(screen.elements) >= 1 =>
         call = Device("tap_element", <<Center(0).x, Center(0).y>>, "")

\* C11 (as claimed): dispatching a decoded action never raises; an unknown
\* or malformed action name and missing or ill-typed parameters yield a
\* failed ActionResult returned to the loop.
C11_DispatchNeverRaises == call.kind # "raise"

\* C12 (as claimed): the only errors of a returned failed AgentResult are
\* the exhaustion of the step budget or of the retry budget; a model
\* transport error never becomes the error of the result.
C12_OnlyExhaustionSurfaces ==
  (Returned /\ ~result.success) =>
    /\ result.error \in {MaxStepsError, ActionFailedError}
    /\ result.error # "HTTPError"

\* The action decoded from response r is not done.
DecodedNotDone(r) ==
  /\ r # NoResponse
  /\ ~r.null
  /\ Truthy(_parse_action(r.content))
  /\ Get(_parse_action(r.content).d, "action", NoneVal) # Str("done")

Requests == attempt + 1

\* C15: a call of chat() sends at most max_retries + 1 requests; a further
\* request of the same call is sent only after a transport error with fewer
\* than max_retries retries used; a response ends the call at once; the
\* transport error is raised only after max_retries retries; a failure that
\* is not a transport error ends the call without a retry.
C15_RetriesBounded ==
  /\ [](Requests <= cfg.max_retries + 1)
  /\ [][pc = "chat" =>
          /\ (pc' = "chat" /\ modelCalls' = modelCalls) =>
                /\ Requests' = Requests + 1
                /\ attempt < cfg.max_retries
                /\ response' = response
          /\ response' # response => Requests' \in {Requests, 1}
          /\ (pc' = "returned" /\ result'.error = "HTTPError") =>
                Requests = cfg.max_retries + 1
          /\ (pc' = "returned" /\ result'.error = "KeyError") =>
                Requests' = Requests]_vars

\* A response arrived at the last request the retry budget allows.
C15_Witness ==
  /\ pc = "exec"
  /\ cfg.max_retries >= 1
  /\ Requests = cfg.max_retries + 1

\* C14 (as claimed): when a stop command arrives while execute() awaits,
\* no further device operation is called and the AgentResult still
\* reaches the caller, its steps ending at the last completed step.
C14_StopKeepsResult ==
  /\ [](pc = "cancelled" => Returned /\ Len(result.steps) <= step_num + 1)
  /\ [][pc = "cancelled" => deviceActions' = deviceActions]_vars

\* C16: the client holds at most one connection at any time: every open
\* connection is the one in _client; a connection is created only when
\* none is held; a chat() with a connection held uses it; when close() or
\* __aexit__ has returned none is held and none is open; close() with none
\* held changes nothing.
C16_OneConnection ==
  /\ [](/\ Cardinality(ollama.live) <= 1
        /\ ollama.live \subseteq {ollama._client}
        /\ (ollama._client # NoClient /\ cpos # "aclose") => ollama.live = {ollama._client}
        /\ (ops # <<>> /\ ops[Len(ops)] \in {"close", "aexit"} /\ cpos = "idle") =>
             ollama._client = NoClient /\ ollama.live = {})
  /\ [][/\ ollama'.created # ollama.created =>
             ollama._client = NoClient /\ ollama'.created = ollama.created + 1
        /\ (cpos' = "request" /\ ollama._client # NoClient) => ollama' = ollama
        /\ (ops' # ops /\ ops'[Len(ops')] = "close" /\ ollama._client = NoClient) =>
             ollama' = ollama /\ cpos' = cpos]_vars

\* Two chat() calls in a row used the connection made by __aenter__, and
\* the scope was left after them.
C16_Witness ==
  /\ ops = <<"aenter", "chat", "chat", "aexit">>
  /\ cpos = "idle"
  /\ ollama.created = 1

\* C17 (as claimed): each of tap, tapElement, swipe, typeText, pressKey,
\* back, home, launchApp, wait and screenshot returns a result and never
\* raises; when its bridge command exits non-zero or times out, what it
\* returns is a failed ActionResult with the error set.
C17_OperationsNeverRaise ==
  (dop \in ControllerOps /\ dpos = "idle") =>
    /\ dres.kind # "raised"
    /\ ~dres.success => dres.kind = "ActionResult" /\ dres.error # "None"

\* C18 (as claimed): every bridge command is awaited under the configured
\* timeout, in the operations of the DeviceController and in capture() of
\* the ScreenshotPipeline, so that a process that never answers ends the
\* operation with a failure.
C18_EveryCommandUnderTimeout == dpos = "communicate" => timer

\* The devices a listing shows as attached: the serials of the lines after
\* the header whose status is "device".
ListedAttached(out) ==
  {out[i][1] : i \in {j \in 2..Len(out) : out[j][2] = "device"}}

\* The first of them in the listing.
FirstAttached(out) ==
  out[MinOf({j \in 2..Len(out) : out[j][2] = "device"})][1]

\* C19: connect() returns true exactly when the listing succeeded, shows at
\* least one attached device and, if a serial is configured, shows that
\* serial as attached; it then marks the controller connected and, with no
\* serial configured, selects the first attached device listed; otherwise
\* it returns false, without raising and without touching the controller.
C19_Connect ==
  [][(dop = "connect" /\ dpos = "communicate" /\ dpos' = "idle") =>
       LET found == /\ listing'.ok
                    /\ ListedAttached(listing'.out) # {}
                    /\ device.device_serial # NoSerial =>
                         device.device_serial \in ListedAttached(listing'.out)
       IN /\ dres'.kind = "bool"
          /\ dres'.success <=> found
          /\ found => /\ device'._device_connected
                      /\ device'.device_serial =
                           IF device.device_serial # NoSerial
                           THEN device.device_serial
                           ELSE FirstAttached(listing'.out)
          /\ ~found => device' = device]_vars

\* connect() without a configured serial skipped an offline device listed
\* first and selected the attached one after it.
C19_Witness ==
  /\ dop = "connect"
  /\ dpos = "idle"
  /\ dres.success
  /\ listing.ok
  /\ Len(listing.out) = 3
  /\ listing.out[2][2] = "offline"
  /\ device.device_serial = listing.out[3][1]
  /\ device._device_connected

\* C20 (as claimed): after any sequence of screen reads the screen memory
\* holds at most context_memory_size entries, and they are the screens read
\* last, in read order, for every context_memory_size >= 0.
C20_MemoryHoldsLastScreens ==
  LET k == MinOf({context_memory_size, Len(reads)})
  IN /\ Len(_context_memory) <= context_memory_size
     /\ _context_memory = SubSeq(reads, Len(reads) - k + 1, Len(reads))

\* C21: when an event is fanned out, every client whose send succeeds has
\* received the event exactly once even if the send to another client
\* failed, no client has received it more than once or without being a
\* target, _broadcast() itself never raises, and with no client it returns
\* without sending anything.
C21_BroadcastFanOut ==
  /\ bpos # "raised"
  /\ \A c \in Clients :
       /\ sendResult[c] = "ok" => received[c] = 1
       /\ sendResult[c] # "ok" => received[c] = 0
       /\ sendResult[c] # "none" => c \in targets
  /\ bpos = "returned" => pending = {} /\ \A c \in targets : sendResult[c] # "none"
  /\ (broadcasts > 0 /\ targets = {}) =>
       bpos = "returned" /\ \A c \in Clients : received[c] = 0

\* A broadcast to two clients has returned: one send failed, the other
\* client received the event.
C21_Witness ==
  /\ bpos = "returned"
  /\ \E c, d \in targets :
       sendResult[c] = "ok" /\ received[c] = 1 /\ sendResult[d] = "failed"

\* The steps of the plain orchestrator MobileAgent.execute.
MobileAgentStep ==
  \/ Execute
  \/ \E scr \in Screens : InitialScreen(scr)
  \/ RequestFails
  \/ RequestMalformed
  \/ \E r \in Responses : ChatReturns(r)
  \/ \E ok \in BOOLEAN : ExecuteAction(ok)
  \/ \E scr \in Screens : ScreenReread(scr)

\* C22: event emission does not influence control flow: every step of
\* WebSocketMobileAgent.execute, whether its callback is absent, works or
\* raises, changes the result (success, steps, tokens, error), the agent
\* state and every other variable of the orchestrator exactly as a step of
\* MobileAgent.execute on the same device and model behaviour does.
C22_EventsDoNotSteer == [][MobileAgentStep]_<<agentVars, memoryVars, clientVars>>

\* An invocation whose callback raised at every event has returned a
\* successful result of two steps.
C22_Witness ==
  /\ _broadcast = "raises"
  /\ pc = "returned"
  /\ events = <<"tokens_used", "state_changed", "task_completed">>
  /\ result.success
  /\ Len(result.steps) = 2

\* C23 (as claimed): when validate() reports an error, no entry point goes
\* on to call execute(), and no device command or model call is issued.
C23_InvalidConfigNeverExecutes ==
  validate(config) # {} => executeCalls = 0 /\ interactions = 0

\* C24 (as claimed): execute() is never in flight for two callers on the
\* same MobileAgent instance.
C24_NoConcurrentExecute ==
  \A r, q \in Callers :
    (r # q /\ tpos[r] = "execute" /\ tpos[q] = "execute") => Instance(r) # Instance(q)

\* The six properties parse ranks by, in the priority of the claim.
Priority(n) ==
  <<n.clickable, n.scrollable, n.checkable, n.text # "", n.content_desc # "",
    n.resource_id # "">>

\* a has a property that b lacks, and they agree on all higher ones.
Outranks(a, b) ==
  \E k \in 1..6 : a[k] /\ ~b[k] /\ \A j \in 1..(k - 1) : a[j] = b[j]

\* C25 (as claimed): the elements returned are in the order of the
\* priority clickable > scrollable > checkable > text > description > id,
\* a lower property deciding only among elements equal on all higher ones;
\* elements equal on all six are ordered by top, then by left.
C25_RelevanceOrder ==
  \A i, j \in 1..Len(parsed) :
    i < j =>
      /\ ~Outranks(Priority(parsed[j]), Priority(parsed[i]))
      /\ Priority(parsed[i]) = Priority(parsed[j]) =>
           \/ parsed[i].bounds[2] < parsed[j].bounds[2]
           \/ /\ parsed[i].bounds[2] = parsed[j].bounds[2]
              /\ parsed[i].bounds[1] <= parsed[j].bounds[1]

\* The conditions of the filter as the claim states them.
Qualifies(e, min_area) ==
  /\ e.enabled
  /\ (e.bounds[3] - e.bounds[1]) * (e.bounds[4] - e.bounds[2]) >= min_area
  /\ \/ e.text # "" \/ e.content_desc # "" \/ e.resource_id # ""
     \/ e.clickable \/ e.scrollable \/ e.checkable

\* The nodes of the dump that parse returned, by their place in the dump.
Returned_pos == {parsed[i].pos : i \in 1..Len(parsed)}

\* C26: every element returned is a node of the dump that is enabled, has
\* an area not below min_area and has text, a description, an id or is
\* clickable, scrollable or checkable; and every such node of the dump is
\* returned, once, unless the list is full (max_elements entries).
C26_Filter ==
  parses > 0 =>
    /\ \A i \in 1..Len(parsed) :
         /\ parsed[i].pos \in 1..Len(dump)
         /\ Qualifies(dump[parsed[i].pos], parser.min_area)
         /\ \A f \in DOMAIN dump[parsed[i].pos] : parsed[i][f] = dump[parsed[i].pos][f]
         /\ \A j \in 1..Len(parsed) : parsed[j].pos = parsed[i].pos => j = i
    /\ Len(parsed) < parser.max_elements =>
         \A p \in 1..Len(dump) : Qualifies(dump[p], parser.min_area) => p \in Returned_pos

\* Of a dump with a disabled node and a node that qualifies, the second
\* alone was returned, the list not being full.
C26_Witness ==
  /\ parses > 0
  /\ Len(dump) = 2
  /\ ~dump[1].enabled
  /\ Returned_pos = {2}
  /\ parser.max_elements = 2

\* C27: the list has at most max_elements entries with the indices 0, 1,
\* ..., N-1 in list order, and no node of the dump that passes the filter
\* and was cut ranks before an entry that was kept.
C27_CapAndReindex ==
  parses > 0 =>
    /\ Len(parsed) <= parser.max_elements
    /\ \A i \in 1..Len(parsed) : parsed[i].index = i - 1
    /\ \A p \in 1..Len(dump) :
         (Qualifies(dump[p], parser.min_area) /\ p \notin Returned_pos) =>
           /\ Len(parsed) = parser.max_elements
           /\ \A i \in 1..Len(parsed) :
                ~Before(relevance_score(dump[p]), relevance_score(parsed[i]))

\* Two nodes passed the filter and max_elements is 1: the second node of
\* the dump, which ranks first, is the entry kept, with index 0.
C27_Witness ==
  /\ parses > 0
  /\ parser.max_elements = 1
  /\ Len(dump) = 2
  /\ Qualifies(dump[1], parser.min_area)
  /\ Qualifies(dump[2], parser.min_area)
  /\ Before(relevance_score(dump[2]), relevance_score(dump[1]))
  /\ Len(parsed) = 1
  /\ parsed[1].pos = 2
  /\ parsed[1].index = 0

\* C28: the encoding of the parse of a dump is the one the same parser
\* gave for that dump in its first call, whatever it parsed in between,
\* and what the parser keeps after a call (its counter) is a function of
\* the dump of that call alone.
C28_Deterministic ==
  parses > 0 =>
    /\ dump = first => encoded = firstEncoded
    /\ parser._index_counter = Len(dump) + 1

\* The parser parsed a dump of two nodes, then another dump, then the
\* first one again, and encoded it to the same three lines.
C28_Witness ==
  /\ parses = 3
  /\ others = 1
  /\ dump = first
  /\ Len(dump) = 2
  /\ Len(encoded) = 3
  /\ encoded = firstEncoded

\* The dump of the example: one node with bounds [0,0][100,50],
\* clickable="true" and text="X", every other attribute but the class absent.
IsExample(d) ==
  /\ Len(d) = 1
  /\ d[1] = [Hierarchy EXCEPT !.text = "X", !.clickable = TRUE, !.bounds = <<0, 0, 100, 50>>,
                              !.class_name = d[1].class_name]

\* C29 (as claimed): the dump of the example parses to exactly one element
\* with center (50,25) and compact encoding "0:B:X@50,25".
C29_OneElementExample ==
  (parses > 0 /\ IsExample(dump)) =>
    /\ Len(parsed) = 1
    /\ center(parsed[1]) = <<50, 25>>
    /\ to_comptext(parsed[1]) = <<0, "B", "X", 50, 25>>
    /\ compact # <<>> => compact = <<<<"App:?">>, <<"Els:">>, <<0, "B", "X", 50, 25>>>>

\* A dict as the function from its keys to their values.
AsMap(d) == [k \in {d[i][1] : i \in 1..Len(d)} |-> DictGet(d, k, 0)]

\* C30 (as claimed): what from_comptext makes of the encoding of a request
\* has the action of the request and the same parameter keys and values.
C30_RoundTrip ==
  decoded # NotDecoded =>
    /\ decoded.action = request.action
    /\ AsMap(decoded.params) = AsMap(request.params)

\* sum(step.tokens_used for step in steps)
RECURSIVE StepTokens(_)
StepTokens(steps) ==
  IF steps = <<>> THEN 0 ELSE Head(steps).tokens_used + StepTokens(Tail(steps))

\* C37: when execute() has returned, result.total_tokens is the sum of the
\* total_tokens of every response chat() returned during the task, the
\* responses that named no action included, and the tokens_used of the
\* recorded steps do not add up to more.
C37_TotalTokens ==
  pc = "returned" =>
    /\ result.total_tokens = tokensReceived
    /\ StepTokens(result.steps) <= result.total_tokens

\* execute() returned a result with a recorded step after a response that
\* named no action: the total is larger than the tokens of the steps.
C37_Witness ==
  /\ pc = "returned"
  /\ unparsed > 0
  /\ Len(result.steps) > 0
  /\ result.total_tokens = tokensReceived
  /\ StepTokens(result.steps) < result.total_tokens

\* AgentResult.step_count (lines 61-63).
step_count(res) == Len(res.steps)

\* The recorded steps carry 1-based numbers that strictly increase in list
\* order and do not exceed max_steps.
StepNumbersInOrder(res) ==
  /\ \A i \in 1..Len(res.steps) :
       res.steps[i].step_number >= 1 /\ res.steps[i].step_number <= cfg.max_steps
  /\ \A i, j \in 1..Len(res.steps) :
       i < j => res.steps[i].step_number < res.steps[j].step_number

\* C31 (as claimed): every returned AgentResult has step_count equal to the
\* number of recorded steps, a total_duration_ms that is not negative, and
\* step numbers that are 1-based, strictly increasing and at most max_steps.
C31_ResultWellFormed ==
  pc = "returned" =>
    /\ step_count(result) = Len(result.steps)
    /\ result.total_duration_ms >= 0
    /\ StepNumbersInOrder(result)

\* C40 (as claimed): when an event-emitting execution has returned, the
\* latest state_changed event handed to the callback names the state in
\* which the agent ended, "completed" or "failed".
C40_LastStateChangedIsFinal ==
  (pc = "returned" /\ _broadcast = "succeeds") =>
    /\ state \in {"completed", "failed"}
    /\ announced = state

\* The tasks created and not yet done.
InFlight == {t \in TaskIds : job[t] \notin {"none", "done"}}

\* The messages C35 is about: no JSON, an unknown or absent command, a run
\* command without a task or with an empty one.
Malformed(m) ==
  \/ m.json = "invalid"
  \/ m.json = "object" /\ m.command \in {"None", "dance"}
  \/ m.json = "object" /\ m.command = "run" /\ m.task \in {"None", ""}

\* C35: a message that is not valid JSON, that names an unknown command or
\* that is a run command without a task makes the server send one error
\* event, to the sending client only; it creates and cancels no task, and
\* the handler returns, so that the sender stays connected and its later
\* messages are handled.
C35_MalformedMessage ==
  [][(handled' = handled + 1 /\ Malformed(last'.message)) =>
       /\ reply'.type = "error"
       /\ reply'.to = {last'.sender}
       /\ <<_current_task, job, cancelling, stopped, terminal>>' =
            <<_current_task, job, cancelling, stopped, terminal>>
       /\ last'.sender \in _clients']_vars

\* A second malformed message of one client was answered while another
\* client was connected.
C35_Witness ==
  /\ handled >= 2
  /\ Malformed(last.message)
  /\ reply.type = "error"
  /\ reply.to = {last.sender}
  /\ Cardinality(_clients) >= 2

\* C38: at most one agent task is in flight; a run command received while
\* a task is not done creates no task and is answered by an error event,
\* and a run command received when no task is in flight creates one.
C38_OneTaskInFlight ==
  /\ [](Cardinality(InFlight) <= 1)
  /\ [][(/\ handled' = handled + 1
         /\ last'.message.json = "object"
         /\ last'.message.command = "run"
         /\ last'.message.task = "open settings") =>
          IF InFlight # {}
          THEN /\ job' = job
               /\ _current_task' = _current_task
               /\ reply'.type = "error"
               /\ reply'.to = _clients
          ELSE /\ Cardinality(InFlight') = 1
               /\ _current_task' \in InFlight'
               /\ job'[_current_task'] = "created"]_vars

\* After the cancellation of the first task was complete a second task was
\* created, and a run command received while that one runs was refused.
C38_Witness ==
  /\ 1 \in stopped
  /\ job[1] = "done"
  /\ _current_task = 2
  /\ job[2] \notin {"none", "done"}
  /\ last.message.command = "run"
  /\ last.message.task = "open settings"
  /\ reply.type = "error"

\* C39: for every task the server started exactly one terminal event
\* (task_completed or task_failed) is emitted, whenever a stop command
\* arrives.
C39_OneTerminalEvent ==
  \A t \in TaskIds : job[t] = "done" => terminal[t] = 1

\* The lines of the screen encoding that list an element: all but the
\* first two of _format_screen_compact, each <<index, type, name, x, y>>.
ElementLines == SubSeq(_format_screen_compact(latest), 3, Len(_format_screen_compact(latest)))

\* C36: a tap on element index i taps the point the latest screen encoding
\* listed for index i, and a tap whose index is outside the element list
\* of that screen calls no device operation.
C36_TapByIndex ==
  asked.key # "" =>
    /\ \A k \in 1..Len(ElementLines) :
         ElementLines[k][1] = asked.index =>
           /\ tapped.kind = "device"
           /\ tapped.op = "tap_element"
           /\ tapped.args = <<ElementLines[k][4], ElementLines[k][5]>>
    /\ (asked.index < 0 \/ asked.index >= Len(latest)) => tapped.kind = "fail"

\* The last element listed of a screen with more elements than the
\* encoding lists was tapped.
C36_Witness ==
  /\ Len(latest) = 16
  /\ Len(ElementLines) = 15
  /\ asked = [key |-> "ei", index |-> 14]
  /\ tapped.kind = "device"
  /\ tapped.args = <<1450, 25>>

C34_BoundedHistory ==
  LET h == pipeline._history
      n == Len(succeeded)
      k == MinOf({pipeline.max_history, n})
  IN /\ Len(h) <= pipeline.max_history
     /\ h = SubSeq(succeeded, n - k + 1, n)
     /\ \A i \in 1..Len(h) : capture[h[i]] = "succeeded"

\* Three captures succeeded and one failed on a pipeline that keeps two:
\* the oldest was evicted.
C34_Witness ==
  /\ pipeline.max_history = 2
  /\ Len(succeeded) = 3
  /\ \E c \in CaptureIds : capture[c] = "failed"
  /\ Len(pipeline._history) = 2
  /\ pipeline._history[2] = succeeded[3]
  /\ pipeline._history[1] = succeeded[2]

\* The sum of one number for each stored record.
RECURSIVE Stored(_, _)
Stored(ts, field) ==
  IF ts = <<>> THEN 0
  ELSE Stored(SubSeq(ts, 1, Len(ts) - 1), field)
       + CASE field = "tokens" -> ts[Len(ts)].total_tokens
           [] field = "steps" -> ts[Len(ts)].steps_count
           [] field = "duration" -> ts[Len(ts)].total_duration_ms

\* C32: what get_performance_metrics() returns is a function of the stored
\* records: total_tasks is the number of tasks completed and the sum of
\* successful_tasks and failed_tasks; the totals of tokens, steps and
\* duration are the sums over the stored records.  The call leaves the
\* collector as it was, and a second call with no call of another method in
\* between returns an equal value.
C32_AggregateFromRecords ==
  /\ [](mop = "get_performance_metrics" =>
          /\ report.total_tasks = completions
          /\ report.total_tasks = Len(collector.tasks)
          /\ report.total_tasks = report.successful_tasks + report.failed_tasks
          /\ report.total_tokens = Stored(collector.tasks, "tokens")
          /\ report.total_steps = Stored(collector.tasks, "steps")
          /\ report.total_duration_ms = Stored(collector.tasks, "duration"))
  /\ [][(mcalls' = mcalls + 1 /\ mop' = "get_performance_metrics") =>
          /\ collector' = collector
          /\ mop = "get_performance_metrics" => report' = report]_vars

\* Two tasks were completed, one with success and one without, a third
\* one was started, and the metrics were read.
C32_Witness ==
  /\ mop = "get_performance_metrics"
  /\ ~collector._current_task.none
  /\ report.total_tasks = 2
  /\ report.successful_tasks = 1
  /\ report.failed_tasks = 1
  /\ report.total_steps = 1
  /\ report.total_tokens >= 2

====
